---------------------------- MODULE Spec2Model ----------------------------
(***************************************************************************)
(* Model of the backlog webview service (BacklogWebviewService.cpp): the   *)
(* frontmatter parser, the four record builders, the per-product cache     *)
(* with its mtime watermark, and the queries built on it.  Strings are     *)
(* TLA+ strings handled character by character, paths are sequences of     *)
(* path components, and the filesystem is an environment that the service  *)
(* only reads.                                                             *)
(***************************************************************************)
EXTENDS Naturals, Sequences, FiniteSets, TLC

VARIABLES
  fs,             \* the filesystem: file path -> NoFile or [mtime, content, readable]
  clock,          \* the filesystem clock: the mtime of the latest write
  productsRoot,   \* BacklogWebviewService::productsRoot
  cacheByProduct, \* BacklogWebviewService::cacheByProduct
  request,        \* the last step: the call and its arguments, or an environment step
  response,       \* the Json::Value the last call returned
  readCount,      \* number of ReadTextFile calls made by the last call
  snapshot        \* history: per cached product, the filesystem its entry was built from

vars == <<fs, clock, productsRoot, cacheByProduct, request, response, readCount, snapshot>>

-----------------------------------------------------------------------------
(* Characters and strings *)

Ch(s, i) == SubSeq(s, i, i)

Whitespace == {" ", "\t", "\r", "\n"}

RECURSIVE FirstNotWs(_, _)
FirstNotWs(s, i) ==
  IF i > Len(s) THEN 0
  ELSE IF Ch(s, i) \notin Whitespace THEN i ELSE FirstNotWs(s, i + 1)

RECURSIVE LastNotWs(_, _)
LastNotWs(s, i) ==
  IF i < 1 THEN 0
  ELSE IF Ch(s, i) \notin Whitespace THEN i ELSE LastNotWs(s, i - 1)

\* Trim, given the position of the first character that is not whitespace (0: none)
TrimFrom(value, first) ==
  IF first = 0 THEN "" ELSE SubSeq(value, first, LastNotWs(value, Len(value)))

Trim(value) == TrimFrom(value, FirstNotWs(value, 1))

\* Unquote, given the trimmed value
StripQuotes(trimmed) ==
  IF Len(trimmed) >= 2
       /\ \/ Ch(trimmed, 1) = "\"" /\ Ch(trimmed, Len(trimmed)) = "\""
          \/ Ch(trimmed, 1) = "'" /\ Ch(trimmed, Len(trimmed)) = "'"
  THEN SubSeq(trimmed, 2, Len(trimmed) - 1)
  ELSE trimmed

Unquote(value) == StripQuotes(Trim(value))

UpperChars == "ABCDEFGHIJKLMNOPQRSTUVWXYZ"
LowerChars == "abcdefghijklmnopqrstuvwxyz"
DigitChars == "0123456789"

RECURSIVE IndexOf(_, _, _)
IndexOf(s, c, i) ==
  IF i > Len(s) THEN 0
  ELSE IF Ch(s, i) = c THEN i ELSE IndexOf(s, c, i + 1)

LowerCharAt(c, k) == IF k = 0 THEN c ELSE Ch(LowerChars, k)

\* the lower-case letter of every upper-case letter
LowerOfUpper == [c \in {Ch(UpperChars, k) : k \in 1..Len(UpperChars)} |->
                   LowerCharAt(c, IndexOf(UpperChars, c, 1))]

LowerChar(c) == IF c \in DOMAIN LowerOfUpper THEN LowerOfUpper[c] ELSE c

RECURSIVE ToLower(_)
ToLower(s) ==
  IF s = "" THEN "" ELSE LowerChar(Ch(s, 1)) \o ToLower(SubSeq(s, 2, Len(s)))

\* NormalizeNullToken without the null tokens
NormalizeNullTokenKept(value) == value

NormalizeNullToken(value) ==
  IF ToLower(Trim(value)) \in {"null", "none", "~"} THEN "" ELSE value

StartsWith(value, prefix) ==
  Len(value) >= Len(prefix) /\ SubSeq(value, 1, Len(prefix)) = prefix

EndsWith(value, suffix) ==
  Len(value) >= Len(suffix)
    /\ SubSeq(value, Len(value) - Len(suffix) + 1, Len(value)) = suffix

\* std::getline over the text: a final newline ends the last line, it starts no new one
RECURSIVE SplitLines(_)
\* SplitLines, given the position of the first newline of the text (0: none)
SplitAt(text, nl) ==
  IF nl = 0 THEN <<text>>
  ELSE <<SubSeq(text, 1, nl - 1)>> \o SplitLines(SubSeq(text, nl + 1, Len(text)))

SplitLines(text) == IF text = "" THEN <<>> ELSE SplitAt(text, IndexOf(text, "\n", 1))

\* The printable ASCII characters (and tab, LF, CR; the backquote left out) in code
\* order: std::string
\* compares character codes, and CharCode is the rank of a character in this order.
AsciiOrder ==
  "\t\n\r !\"#$%&'()*+,-./" \o DigitChars \o ":;<=>?@" \o UpperChars
    \o "[\\]^_" \o LowerChars \o "{|}~"

CharCode(c) == IndexOf(AsciiOrder, c, 1)

\* std::string operator< : lexicographic, a proper prefix is smaller
RECURSIVE StrLess(_, _)
StrLess(a, b) ==
  IF b = "" THEN FALSE
  ELSE IF a = "" THEN TRUE
  ELSE IF Ch(a, 1) = Ch(b, 1) THEN StrLess(SubSeq(a, 2, Len(a)), SubSeq(b, 2, Len(b)))
  ELSE CharCode(Ch(a, 1)) < CharCode(Ch(b, 1))

-----------------------------------------------------------------------------
(* Frontmatter *)

MapGet(map, key) == IF key \in DOMAIN map THEN map[key] ELSE ""

MapPut(map, key, value) ==
  [k \in DOMAIN map \cup {key} |-> IF k = key THEN value ELSE map[k]]

EmptyMap == [k \in {} |-> ""]

\* the text of a list line after its marker (lines 253-260), given the trimmed line
StripListMarker(itemValue) ==
  IF StartsWith(itemValue, "- ") THEN Trim(SubSeq(itemValue, 3, Len(itemValue)))
  ELSE IF StartsWith(itemValue, "-") THEN Trim(SubSeq(itemValue, 2, Len(itemValue)))
  ELSE IF StartsWith(itemValue, "  -") THEN Trim(SubSeq(itemValue, 4, Len(itemValue)))
  ELSE itemValue

\* result[currentKey] after a list line with text itemValue (lines 261-266)
AppendListItem(result, currentKey, itemValue) ==
  IF itemValue = "" THEN result
  ELSE MapPut(result, currentKey,
              MapGet(result, currentKey)
              \o (IF MapGet(result, currentKey) # "" THEN "," ELSE "")
              \o NormalizeNullToken(Unquote(itemValue)))

RECURSIVE FrontmatterLines(_, _, _, _)

\* One turn of the loop of ParseFrontmatterMap (lines 232-267) on line i, given the
\* line, the line trimmed and the position of its first colon (0: none)
FrontmatterLine(lines, i, result, currentKey, raw, trimmed, keyPos) ==
  IF trimmed = "---" THEN [ok |-> TRUE, error |-> "", map |-> result]
  ELSE IF trimmed = "" THEN FrontmatterLines(lines, i + 1, result, currentKey)
  ELSE IF keyPos # 0 /\ raw # "" /\ Ch(raw, 1) # " " /\ Ch(raw, 1) # "\t"
  THEN FrontmatterLines(lines, i + 1,
         MapPut(result, Trim(SubSeq(raw, 1, keyPos - 1)),
                NormalizeNullToken(Unquote(Trim(SubSeq(raw, keyPos + 1, Len(raw)))))),
         Trim(SubSeq(raw, 1, keyPos - 1)))
  ELSE IF currentKey # "" /\ (StartsWith(raw, "  -") \/ StartsWith(raw, "- "))
  THEN FrontmatterLines(lines, i + 1,
         AppendListItem(result, currentKey, StripListMarker(Trim(raw))), currentKey)
  ELSE FrontmatterLines(lines, i + 1, result, currentKey)

\* The loop of ParseFrontmatterMap from line i on (lines 229-276)
FrontmatterLines(lines, i, result, currentKey) ==
  IF i > Len(lines)
  THEN [ok |-> FALSE, error |-> "Missing frontmatter end marker", map |-> result]
  ELSE FrontmatterLine(lines, i, result, currentKey,
                       lines[i], Trim(lines[i]), IndexOf(lines[i], ":", 1))

\* the parser without its test of the first line
ParseFrontmatterLinesUnopened(lines) ==
  IF lines = <<>>
  THEN [ok |-> FALSE, error |-> "Missing frontmatter start marker", map |-> EmptyMap]
  ELSE FrontmatterLines(lines, 2, EmptyMap, "")

ParseFrontmatterLines(lines) ==
  IF lines = <<>> \/ Trim(lines[1]) # "---"
  THEN [ok |-> FALSE, error |-> "Missing frontmatter start marker", map |-> EmptyMap]
  ELSE FrontmatterLines(lines, 2, EmptyMap, "")

ParseFrontmatterMap(content) == ParseFrontmatterLines(SplitLines(content))

-----------------------------------------------------------------------------
(* The file contents of the model *)

TextA1 == "---\nid: A\ntitle: Alpha\nstate: InProgress\nupdated: 2024-01-01\n---\nbody\n"
TextA2 == "---\nid: A\ntitle: 'Alpha two'\nupdated: 2024-01-02\n---\n"
TextA9 == "---\nid: \"A\"\ntype: Feature\nupdated: 9\n---\n"
TextB == "---\nid: B\nparent: A\nstate: done\nupdated: 2024-01-01\n---\n"
TextNull == "---\nid: NULL\ntitle: No id\n---\n"
TextNoEnd == "---\nid: C\ntitle: Unclosed\n"
TextDecisionA == "---\nid: A\nstatus: Accepted\ndate: 2024-01-02\n---\n"
TextDecision == "---\ntitle: Use files\ndate: 2024-01-05\n---\n"
TextPlain == "# Notes\n"

ManifestFull ==
  "{\"topic\": \"alpha\", \"name\": \"sprint\", \"status\": \"active\", \"updated_at\": \"2024-01-03\"}"
ManifestEmpty == "{}"
ManifestBroken == "{oops"
ManifestBlank == "{\"status\": \"\"}"
\* well-formed JSON that is no object of strings: an array, the null value, an object
\* with an array member, an object with a number and a boolean member
ManifestArray == "[]"
ManifestNull == "null"
ManifestNested == "{\"status\": [\"open\"]}"
ManifestTyped == "{\"topic\": 7, \"name\": 7, \"status\": true}"

\* An item file that names its id and, when given, its parent and its type
HierarchyText(id, parent, type) ==
  "---\nid: " \o id
  \o (IF parent = "" THEN "" ELSE "\nparent: " \o parent)
  \o (IF type = "" THEN "" ELSE "\ntype: " \o type)
  \o "\n---\n"

HierarchyIds == {"A", "B", "C"}

HierarchyParents == {"", "A", "B", "C", "adr-1"}

HierarchyTexts ==
  {HierarchyText(id, parent, type) :
     id \in HierarchyIds, parent \in HierarchyParents, type \in {"", "Note"}}

\* An item file that names its id and its state
StateText(id, state) == "---\nid: " \o id \o "\nstate: " \o state \o "\n---\n"

KanbanStates ==
  {"InProgress", "inprogress", "INPROGRESS", "Active", "active", "Blocked", "BLOCKED",
   "Review", "review", "Done", "done", "CLOSED", "closed", "Proposed", "open", "Weird"}

StateTexts == {StateText(id, state) : id \in {"A", "B"}, state \in KanbanStates}

\* An item file that names its id, its parent when given, its state and its date
ViewText(id, parent, state, updated) ==
  "---\nid: " \o id
  \o (IF parent = "" THEN "" ELSE "\nparent: " \o parent)
  \o "\nstate: " \o state \o "\nupdated: " \o updated \o "\n---\n"

ViewTexts ==
  {ViewText("A", "B", "Done", "2024-01-03"), ViewText("B", "", "Review", "2024-01-01"),
   ViewText("A", "", "Blocked", "2024-01-01"), ViewText("B", "A", "Done", "2024-01-03"),
   ViewText("A", "C", "InProgress", "2024-01-03"), ViewText("B", "", "Open", "2024-01-03")}

Contents ==
  {TextA1, TextA2, TextA9, TextB, TextNull, TextNoEnd, TextDecisionA, TextDecision,
   TextPlain, ManifestFull, ManifestEmpty, ManifestBroken, ManifestBlank, ManifestArray,
   ManifestNull, ManifestNested, ManifestTyped, ""}
  \cup HierarchyTexts \cup StateTexts \cup ViewTexts

\* ParseFrontmatterMap of every content of the model, computed once
FrontmatterOfContents == [text \in Contents |-> ParseFrontmatterMap(text)]

Frontmatter(text) == FrontmatterOfContents[text]

-----------------------------------------------------------------------------
(* Paths: a std::filesystem::path is the sequence of its components *)

Filename(path) == IF path = <<>> THEN "" ELSE path[Len(path)]

ParentPath(path) == IF path = <<>> THEN <<>> ELSE SubSeq(path, 1, Len(path) - 1)

IsUnder(path, dir) ==
  Len(path) > Len(dir) /\ SubSeq(path, 1, Len(dir)) = dir

RECURSIVE LastIndexOf(_, _, _)
LastIndexOf(s, c, i) ==
  IF i < 1 THEN 0
  ELSE IF Ch(s, i) = c THEN i ELSE LastIndexOf(s, c, i - 1)

\* path::extension(): from the last period of the filename, unless the filename is
\* "." or ".." or its only period is its first character
ExtensionOf(name, dot) ==
  IF name = "." \/ name = ".." \/ dot <= 1 THEN "" ELSE SubSeq(name, dot, Len(name))

Extension(path) ==
  ExtensionOf(Filename(path), LastIndexOf(Filename(path), ".", Len(Filename(path))))

Stem(path) == SubSeq(Filename(path), 1, Len(Filename(path)) - Len(Extension(path)))

RECURSIVE GenericString(_)
GenericString(path) ==
  IF path = <<>> THEN ""
  ELSE IF Len(path) = 1 THEN path[1]
  ELSE path[1] \o "/" \o GenericString(Tail(path))

\* std::filesystem::relative(path, base) for a path below base
Relative(path, base) == SubSeq(path, Len(base) + 1, Len(path))

IsMarkdownItemFile(path) == Extension(path) = ".md"

ShouldSkipPath(path) ==
  \/ Filename(path) = "README.md"
  \/ Len(Filename(path)) >= 9 /\ EndsWith(Filename(path), ".index.md")
  \/ \E i \in 1..Len(path) : path[i] = "_trash"

\* the type a directory name stands for (lines 198-213)
TypeOfDirectory(parent) ==
  IF parent = "story" \/ parent = "userstory" THEN "UserStory"
  ELSE IF parent = "epic" THEN "Epic"
  ELSE IF parent = "feature" THEN "Feature"
  ELSE IF parent = "task" THEN "Task"
  ELSE IF parent = "bug" THEN "Bug"
  ELSE "Unknown"

NormalizeTypeFromPath(itemPath, declaredType) ==
  IF declaredType # "" THEN declaredType
  ELSE TypeOfDirectory(Filename(ParentPath(ParentPath(itemPath))))

IsProductChar(c) ==
  \/ IndexOf(UpperChars, c, 1) # 0
  \/ IndexOf(LowerChars, c, 1) # 0
  \/ IndexOf(DigitChars, c, 1) # 0
  \/ c \in {".", "_", "-"}

\* std::regex_match against ^[A-Za-z0-9._-]+$
IsValidProductName(product) ==
  Len(product) >= 1 /\ \A i \in 1..Len(product) : IsProductChar(Ch(product, i))

\* productsRoot / product (lines 89-92). A directory is named here by its components
\* from the top, so the names "." and ".." give the directory the operating system
\* reaches through them: the products root itself and the directory above it.
ProductRoot(root, product) ==
  IF product = "." THEN root
  ELSE IF product = ".." THEN ParentPath(root)
  ELSE Append(root, product)

-----------------------------------------------------------------------------
(* The filesystem the service reads *)

WorkspaceRoot == <<"ws">>

ItemFileA == <<"ws", "products", "p1", "items", "epic", "0001", "a.md">>
ItemFileB == <<"ws", "products", "p1", "items", "task", "0002", "b.md">>
ItemFileC == <<"ws", "products", "p1", "items", "bug", "0003", "c.md">>
ItemReadme == <<"ws", "products", "p1", "items", "README.md">>
DecisionFile == <<"ws", "products", "p1", "decisions", "adr-1.md">>
OtherDecisionFile == <<"ws", "products", "p2", "decisions", "adr-2.md">>
NullDecisionFile == <<"ws", "products", "p1", "decisions", "null.md">>
TopicManifest == <<"ws", "topics", "t1", "manifest.json">>
TopicBrief == <<"ws", "topics", "t1", "brief.md">>
WorksetManifest == <<"ws", "worksets", "w1", "manifest.json">>
TrashTopicManifest == <<"ws", "topics", "_trash", "manifest.json">>
DirectItemFile == <<"w2", "products", "p1", "items", "task", "0001", "d.md">>
NestedItemFile ==
  <<"w2", "_kano", "backlog", "products", "p1", "items", "task", "0001", "n.md">>
InnerItemFile == <<"ws", "products", "products", "p1", "items", "task", "0001", "i.md">>
DeepItemFile ==
  <<"ws", "products", "_kano", "backlog", "products", "p1", "items", "task", "0001", "k.md">>
\* an item file beside the product directories and one beside the products root
RootItemFile == <<"ws", "products", "items", "epic", "0001", "r.md">>
OutsideItemFile == <<"ws", "items", "epic", "0001", "o.md">>

FilePaths ==
  {ItemFileA, ItemFileB, ItemFileC, ItemReadme, DecisionFile, OtherDecisionFile,
   NullDecisionFile, TopicManifest, TopicBrief, WorksetManifest, TrashTopicManifest,
   DirectItemFile, NestedItemFile, InnerItemFile, DeepItemFile, RootItemFile,
   OutsideItemFile}

\* Directories that exist whatever files there are; any other directory exists
\* exactly while a file lies below it.
BaseDirs ==
  {<<"ws">>, <<"ws", "products">>, <<"ws", "products", "p1">>,
   <<"ws", "products", "p1", "items">>}

FileTimeMin == 0

NoFile == [present |-> FALSE, mtime |-> FileTimeMin, content |-> "", readable |-> FALSE]

FilesUnder(files, dir) == {f \in DOMAIN files : files[f].present /\ IsUnder(f, dir)}

Exists(files, path) ==
  \/ path \in BaseDirs
  \/ path \in DOMAIN files /\ files[path].present
  \/ FilesUnder(files, path) # {}

IsDirectory(files, path) == path \in BaseDirs \/ FilesUnder(files, path) # {}

\* std::filesystem::path(text) for an absolute text: the components between the
\* separators after the root; a trailing separator leaves an empty last component
RECURSIVE SplitPath(_)
SplitPathAt(text, sep) ==
  IF sep = 0 THEN <<text>>
  ELSE <<SubSeq(text, 1, sep - 1)>> \o SplitPath(SubSeq(text, sep + 1, Len(text)))

SplitPath(text) == SplitPathAt(text, IndexOf(text, "/", 1))

PathOf(text) == IF text = "" THEN <<>> ELSE Tail(SplitPath(text))

\* The directory a path names: the components "." and the empty ones fall away. It is
\* what weakly_canonical returns for the paths of the model, which hold neither
\* links nor ".."
WeaklyCanonical(path) == SelectSeq(path, LAMBDA part : part # "." /\ part # "")

\* generic_string() of an absolute path
AbsoluteString(path) == "/" \o GenericString(path)

\* exists(path) && is_directory(path)
IsExistingDirectory(files, path) ==
  /\ Exists(files, WeaklyCanonical(path))
  /\ IsDirectory(files, WeaklyCanonical(path))

\* the resolution trying _kano/backlog/products first
ResolveNestedFirst(files, inputPath) ==
  IF inputPath = <<>> THEN <<>>
  ELSE IF IsExistingDirectory(files, inputPath \o <<"_kano", "backlog", "products">>)
  THEN inputPath \o <<"_kano", "backlog", "products">>
  ELSE IF IsExistingDirectory(files, Append(inputPath, "products"))
  THEN Append(inputPath, "products")
  ELSE IF Filename(inputPath) = "products" /\ IsExistingDirectory(files, inputPath)
  THEN inputPath
  ELSE <<>>

\* ResolveProductsPathFromInput (lines 94-118); the empty path is <<>>
ResolveProductsPathFromInput(files, inputPath) ==
  IF inputPath = <<>> THEN <<>>
  ELSE IF IsExistingDirectory(files, Append(inputPath, "products"))
  THEN Append(inputPath, "products")
  ELSE IF Filename(inputPath) = "products" /\ IsExistingDirectory(files, inputPath)
  THEN inputPath
  ELSE IF IsExistingDirectory(files, inputPath \o <<"_kano", "backlog", "products">>)
  THEN inputPath \o <<"_kano", "backlog", "products">>
  ELSE <<>>

SetMax(S) == IF S = {} THEN FileTimeMin ELSE CHOOSE m \in S : \A n \in S : n <= m

BacklogRoot(root) == ParentPath(root)

ScanRoots(root, productRoot) ==
  {Append(productRoot, "items"), Append(productRoot, "decisions"),
   Append(BacklogRoot(root), "topics"), Append(BacklogRoot(root), "worksets")}

IsTracked(path) ==
  /\ IsMarkdownItemFile(path) \/ Filename(path) = "manifest.json"
  /\ ~ShouldSkipPath(path)

\* IsTracked and the walks' filter of every path of the model, computed once
TrackedPaths == {f \in FilePaths : IsTracked(f)}

WalkedPaths == {f \in FilePaths : IsMarkdownItemFile(f) /\ ~ShouldSkipPath(f)}

ScannedFiles(files, root, productRoot) ==
  {f \in DOMAIN files :
     /\ files[f].present
     /\ f \in TrackedPaths
     /\ \E r \in ScanRoots(root, productRoot) : IsUnder(f, r)}

ScanLatestMtime(files, root, productRoot) ==
  SetMax({files[f].mtime : f \in ScannedFiles(files, root, productRoot)})

\* ShouldLoad without the staleness test
ShouldLoadUnlessCached(files, root, cache, product, forceRefresh) ==
  \/ forceRefresh
  \/ product \notin DOMAIN cache

\* ShouldLoad without regard for forceRefresh
ShouldLoadUnforced(files, root, cache, product, forceRefresh) ==
  \/ product \notin DOMAIN cache
  \/ ScanLatestMtime(files, root, ProductRoot(root, product)) > cache[product].latestMtime

\* ShouldLoad with >= for >
ShouldLoadWhenNotOlder(files, root, cache, product, forceRefresh) ==
  \/ forceRefresh
  \/ product \notin DOMAIN cache
  \/ ScanLatestMtime(files, root, ProductRoot(root, product)) >= cache[product].latestMtime

ShouldLoad(files, root, cache, product, forceRefresh) ==
  \/ forceRefresh
  \/ product \notin DOMAIN cache
  \/ ScanLatestMtime(files, root, ProductRoot(root, product)) > cache[product].latestMtime

-----------------------------------------------------------------------------
(* Reading files *)

\* ReadTextFile leaving the error unset
ReadTextFileSilent(files, path) ==
  IF path \in DOMAIN files /\ files[path].present /\ files[path].readable
  THEN [ok |-> TRUE, error |-> "", text |-> files[path].content]
  ELSE [ok |-> FALSE, error |-> "", text |-> ""]

\* ReadTextFile: the text, or the failure to open
ReadTextFile(files, path) ==
  IF path \in DOMAIN files /\ files[path].present /\ files[path].readable
  THEN [ok |-> TRUE, error |-> "", text |-> files[path].content]
  ELSE [ok |-> FALSE, error |-> "Failed to open file", text |-> ""]

\* A Json::Value: its type, its members when it is an object, its text when it is a
\* scalar
JsonString(text) == [type |-> "stringValue", members |-> EmptyMap, text |-> text]

JsonScalar(type, text) == [type |-> type, members |-> EmptyMap, text |-> text]

JsonNull == [type |-> "nullValue", members |-> EmptyMap, text |-> ""]

JsonArray == [type |-> "arrayValue", members |-> EmptyMap, text |-> ""]

JsonObject(members) == [type |-> "objectValue", members |-> members, text |-> ""]

\* Json::parseFromStream on the manifest texts of the model: the value read, or the
\* parser's error message. The reader takes any JSON value as the root, and what
\* follows the root is not looked at: of a text that opens with the frontmatter
\* delimiter the reader takes the first "-" as a number without digits, the integer 0.
\* The other texts of the model, the empty one and the plain markdown, are no value.
JsonParse(text) ==
  IF text = ManifestFull
  THEN [ok |-> TRUE, error |-> "",
        value |-> JsonObject([topic |-> JsonString("alpha"), name |-> JsonString("sprint"),
                              status |-> JsonString("active"),
                              updated_at |-> JsonString("2024-01-03")])]
  ELSE IF text = ManifestEmpty
  THEN [ok |-> TRUE, error |-> "", value |-> JsonObject(EmptyMap)]
  ELSE IF text = ManifestBlank
  THEN [ok |-> TRUE, error |-> "", value |-> JsonObject([status |-> JsonString("")])]
  ELSE IF text = ManifestArray
  THEN [ok |-> TRUE, error |-> "", value |-> JsonArray]
  ELSE IF text = ManifestNull
  THEN [ok |-> TRUE, error |-> "", value |-> JsonNull]
  ELSE IF text = ManifestNested
  THEN [ok |-> TRUE, error |-> "", value |-> JsonObject([status |-> JsonArray])]
  ELSE IF text = ManifestTyped
  THEN [ok |-> TRUE, error |-> "",
        value |-> JsonObject([topic |-> JsonScalar("intValue", "7"),
                              name |-> JsonScalar("intValue", "7"),
                              status |-> JsonScalar("booleanValue", "true")])]
  ELSE IF text = ManifestBroken
  THEN [ok |-> FALSE, value |-> JsonNull,
        error |-> "* Line 1, Column 2\n  Missing '}' or object member name\n"]
  ELSE IF StartsWith(text, "--")
  THEN [ok |-> TRUE, error |-> "", value |-> JsonScalar("intValue", "0")]
  ELSE [ok |-> FALSE, value |-> JsonNull,
        error |-> "* Line 1, Column 1\n  Syntax error: value, object or array expected.\n"]

\* ParseJsonFile, given what ReadTextFile returned
JsonFromRead(read) ==
  IF ~read.ok THEN [ok |-> FALSE, error |-> read.error, value |-> JsonNull]
  ELSE JsonParse(read.text)

ParseJsonFile(files, jsonPath) == JsonFromRead(ReadTextFile(files, jsonPath))

\* Json::Value::get(key, default): the member, or the default; only an object and the
\* null value can be asked for a member
JsonMember(value, key, default) ==
  IF key \in DOMAIN value.members THEN value.members[key] ELSE JsonString(default)

\* Json::Value::get(key, default).asString(): the text of a string, of a number and of
\* a boolean, the empty text of null. The call throws Json::LogicError when the value
\* asked is an array or a scalar, and when the member is an array or an object.
JsonGet(value, key, default) ==
  IF value.type \notin {"nullValue", "objectValue"}
  THEN [thrown |-> TRUE, text |-> ""]
  ELSE IF JsonMember(value, key, default).type \in {"arrayValue", "objectValue"}
  THEN [thrown |-> TRUE, text |-> ""]
  ELSE [thrown |-> FALSE, text |-> JsonMember(value, key, default).text]

-----------------------------------------------------------------------------
(* Record builders *)

BlankItem ==
  [id |-> "", type |-> "", sourceKind |-> "", title |-> "", state |-> "",
   parent |-> "", created |-> "", updated |-> "", relativePath |-> "",
   rawContent |-> "", valid |-> FALSE, parseError |-> ""]

\* the record as a builder starts it: invalid, with its kind, type and path
StartItem(sourceKind, type, path, base) ==
  [BlankItem EXCEPT !.sourceKind = sourceKind, !.type = type,
     !.relativePath = GenericString(Relative(path, base))]

OrElse(value, default) == IF value = "" THEN default ELSE value

\* ParseItem lines 312-331: the checks of the id and the defaults
FinishItem(item) ==
  IF item.id = "" THEN [item EXCEPT !.parseError = "Missing id"]
  ELSE IF ToLower(item.id) = "null" THEN [item EXCEPT !.parseError = "Invalid id"]
  ELSE [item EXCEPT !.title = OrElse(item.title, "(untitled)"),
                    !.state = OrElse(item.state, "Proposed"),
                    !.valid = TRUE]

\* ParseItem lines 296-331, given the file's text and its frontmatter
ItemFromFrontmatter(item, itemPath, content, fm) ==
  IF ~fm.ok THEN [item EXCEPT !.rawContent = content, !.parseError = fm.error]
  ELSE FinishItem([item EXCEPT !.rawContent = content,
                     !.id = MapGet(fm.map, "id"),
                     !.type = NormalizeTypeFromPath(itemPath, MapGet(fm.map, "type")),
                     !.title = MapGet(fm.map, "title"),
                     !.state = MapGet(fm.map, "state"),
                     !.parent = MapGet(fm.map, "parent"),
                     !.created = MapGet(fm.map, "created"),
                     !.updated = MapGet(fm.map, "updated")])

\* ParseItem lines 287-331, given what ReadTextFile returned
ItemFromRead(item, itemPath, read) ==
  IF ~read.ok THEN [item EXCEPT !.parseError = read.error]
  ELSE ItemFromFrontmatter(item, itemPath, read.text, Frontmatter(read.text))

ParseItem(files, itemPath, productRoot) ==
  ItemFromRead(StartItem("Item", "", itemPath, productRoot), itemPath,
               ReadTextFile(files, itemPath))

\* ParseDecision lines 353-376, given the file's text and its frontmatter
DecisionFromFrontmatter(item, decisionPath, content, fm) ==
  IF ~fm.ok THEN [item EXCEPT !.rawContent = content, !.parseError = fm.error]
  ELSE [item EXCEPT !.rawContent = content,
          !.id = OrElse(MapGet(fm.map, "id"), Stem(decisionPath)),
          !.title = OrElse(MapGet(fm.map, "title"), Stem(decisionPath)),
          !.state = OrElse(MapGet(fm.map, "status"), "Proposed"),
          !.created = MapGet(fm.map, "date"),
          !.updated = MapGet(fm.map, "date"),
          !.valid = TRUE]

DecisionFromRead(item, decisionPath, read) ==
  IF ~read.ok THEN [item EXCEPT !.parseError = read.error]
  ELSE DecisionFromFrontmatter(item, decisionPath, read.text, Frontmatter(read.text))

ParseDecision(files, decisionPath, productRoot) ==
  DecisionFromRead(StartItem("Decision", "ADR", decisionPath, productRoot), decisionPath,
                   ReadTextFile(files, decisionPath))

\* The exception a builder ends with instead of a record. Nothing in the service or
\* in main.cpp catches it: it leaves LoadProduct and the query that called it.
LogicError == [exception |-> "Json::LogicError"]

Threw(outcome) == "exception" \in DOMAIN outcome

\* the record of a manifest (lines 422-428 and 461-467), given the parsed manifest,
\* the id prefix, the slug or name as get().asString() gave it, and the content
\* chosen; the exception when one of the asString calls throws
ManifestItem(item, json, prefix, slug, content) ==
  IF ~json.ok THEN [item EXCEPT !.parseError = json.error]
  ELSE IF \/ slug.thrown
          \/ JsonGet(json.value, "status", "open").thrown
          \/ JsonGet(json.value, "created_at", "").thrown
          \/ JsonGet(json.value, "updated_at", "").thrown
  THEN LogicError
  ELSE [item EXCEPT !.id = prefix \o slug.text,
          !.title = slug.text,
          !.state = JsonGet(json.value, "status", "open").text,
          !.created = JsonGet(json.value, "created_at", "").text,
          !.updated = JsonGet(json.value, "updated_at", "").text,
          !.rawContent = content,
          !.valid = TRUE]

\* A manifest is opened more than once while its record is built. The builders take
\* the filesystem as each open finds it: first at ParseJsonFile, briefs at the test
\* and the read of brief.md, again at the second open of the manifest.

\* ParseTopicManifest lines 430-438: the brief when it exists and can be read,
\* otherwise the manifest, opened a second time
TopicContent(briefs, again, topicManifestPath, briefPath) ==
  IF Exists(briefs, briefPath) /\ ReadTextFile(briefs, briefPath).ok
  THEN ReadTextFile(briefs, briefPath).text
  ELSE ReadTextFile(again, topicManifestPath).text

TopicFromJson(briefs, again, item, topicManifestPath, json) ==
  ManifestItem(item, json, "TOPIC-",
               JsonGet(json.value, "topic", Filename(ParentPath(topicManifestPath))),
               TopicContent(briefs, again, topicManifestPath,
                            Append(ParentPath(topicManifestPath), "brief.md")))

\* ParseTopicManifest (lines 404-441) over the filesystems its three opens find
ParseTopicManifestOver(first, briefs, again, topicManifestPath, backlogRoot) ==
  TopicFromJson(briefs, again,
                StartItem("Topic", "Topic", topicManifestPath, backlogRoot),
                topicManifestPath, ParseJsonFile(first, topicManifestPath))

\* ParseTopicManifest on a filesystem nobody writes meanwhile
ParseTopicManifest(files, topicManifestPath, backlogRoot) ==
  ParseTopicManifestOver(files, files, files, topicManifestPath, backlogRoot)

\* ParseWorksetManifest lines 461-472: the manifest is opened again for rawContent
WorksetFromJson(again, item, worksetManifestPath, json) ==
  ManifestItem(item, json, "WORKSET-",
               JsonGet(json.value, "name", Filename(ParentPath(worksetManifestPath))),
               ReadTextFile(again, worksetManifestPath).text)

\* ParseWorksetManifest (lines 443-475) over the filesystems its two opens find
ParseWorksetManifestOver(first, again, worksetManifestPath, backlogRoot) ==
  WorksetFromJson(again,
                  StartItem("Workset", "Workset", worksetManifestPath, backlogRoot),
                  worksetManifestPath, ParseJsonFile(first, worksetManifestPath))

\* ParseWorksetManifest on a filesystem nobody writes meanwhile
ParseWorksetManifest(files, worksetManifestPath, backlogRoot) ==
  ParseWorksetManifestOver(files, files, worksetManifestPath, backlogRoot)

\* The ReadTextFile calls of each builder, for the read-count probe
ItemReads == 1

\* ParseTopicManifest: the manifest, the brief when it exists, and the manifest again
\* when no brief was read
TopicReadsGiven(briefExists, briefOk) ==
  1 + (IF briefExists THEN 1 ELSE 0) + (IF briefExists /\ briefOk THEN 0 ELSE 1)

\* a manifest read and parsed whose members the builder cannot take as strings
ManifestThrows(json, slugKey) ==
  /\ json.ok
  /\ \E key \in {slugKey, "status", "created_at", "updated_at"} :
       JsonGet(json.value, key, "").thrown

TopicReadsOver(first, briefs, topicManifestPath) ==
  IF ~ParseJsonFile(first, topicManifestPath).ok THEN 1
  ELSE IF ManifestThrows(ParseJsonFile(first, topicManifestPath), "topic") THEN 1
  ELSE TopicReadsGiven(
         Exists(briefs, Append(ParentPath(topicManifestPath), "brief.md")),
         ReadTextFile(briefs, Append(ParentPath(topicManifestPath), "brief.md")).ok)

TopicReads(files, topicManifestPath) == TopicReadsOver(files, files, topicManifestPath)

WorksetReads(files, worksetManifestPath) ==
  IF ~ParseJsonFile(files, worksetManifestPath).ok THEN 1
  ELSE IF ManifestThrows(ParseJsonFile(files, worksetManifestPath), "name") THEN 1
  ELSE 2

-----------------------------------------------------------------------------
(* LoadProduct: the scan, the four walks, the id index and the primaries *)

\* The orders in which a directory iterator may enumerate a set of entries
Orderings(S) ==
  {seq \in [1..Cardinality(S) -> S] : \A i, j \in 1..Cardinality(S) : seq[i] = seq[j] => i = j}

ItemEntries(files, dir) ==
  {f \in FilesUnder(files, dir) : f \in WalkedPaths}

\* directory_iterator(root): the subdirectories of root holding a manifest.json
ManifestEntries(files, dir) ==
  {m \in {Append(SubSeq(f, 1, Len(dir) + 1), "manifest.json") :
            f \in {g \in FilesUnder(files, dir) : Len(g) > Len(dir) + 1}} :
     Exists(files, m)}

\* What one rebuild enumerates, each walk in one of its possible orders
LoadOrders(files, root, product) ==
  [items : Orderings(ItemEntries(files, Append(ProductRoot(root, product), "items"))),
   decisions : Orderings(ItemEntries(files, Append(ProductRoot(root, product), "decisions"))),
   topics : Orderings(ManifestEntries(files, Append(BacklogRoot(root), "topics"))),
   worksets : Orderings(ManifestEntries(files, Append(BacklogRoot(root), "worksets")))]

\* the category each walk of LoadProduct names in its warning
WarningCategory(sourceKind) ==
  IF sourceKind = "Item" THEN "item"
  ELSE IF sourceKind = "Decision" THEN "decision"
  ELSE IF sourceKind = "Topic" THEN "topic"
  ELSE "workset"

InvalidWarning(category, item) ==
  "Invalid " \o category \o ": " \o item.relativePath \o " - " \o item.parseError

RECURSIVE WarningsOf(_, _)
WarningsOf(items, i) ==
  IF i > Len(items) THEN <<>>
  ELSE (IF items[i].valid THEN <<>>
        ELSE <<InvalidWarning(WarningCategory(items[i].sourceKind), items[i])>>)
       \o WarningsOf(items, i + 1)

\* idIndexes[id]: the positions of the records carrying id, in discovery order
\* (positions count from 1 here, from 0 in the code)
\* the positions of the records carrying id, the last one first
PositionsOfDescending(allItems, id) ==
  [k \in 1..Len(SelectSeq([i \in 1..Len(allItems) |-> i],
                          LAMBDA i : allItems[i].id = id)) |->
     SelectSeq([i \in 1..Len(allItems) |-> i], LAMBDA i : allItems[i].id = id)[
       Len(SelectSeq([i \in 1..Len(allItems) |-> i],
                     LAMBDA i : allItems[i].id = id)) + 1 - k]]

PositionsOf(allItems, id) ==
  SelectSeq([i \in 1..Len(allItems) |-> i], LAMBDA i : allItems[i].id = id)

IndexIds(allItems) == {allItems[i].id : i \in 1..Len(allItems)} \ {""}

\* the loop of LoadProduct lines 620-630 over indexes[k..], primary so far given
RECURSIVE PickPrimary(_, _, _, _)
\* the tie on updated broken towards the greater path
NextPrimaryGreaterPath(index, candidate, primary, current) ==
  IF candidate.updated = current.updated
       /\ StrLess(current.relativePath, candidate.relativePath)
  THEN index
  ELSE IF StrLess(current.updated, candidate.updated) THEN index ELSE primary

\* the tie on updated broken towards the record discovered last
NextPrimaryLastWins(index, candidate, primary, current) ==
  IF StrLess(candidate.updated, current.updated) THEN primary ELSE index

\* one turn of that loop: candidate and current are read before either test
NextPrimary(index, candidate, primary, current) ==
  IF candidate.updated = current.updated
       /\ StrLess(candidate.relativePath, current.relativePath)
  THEN index
  ELSE IF StrLess(current.updated, candidate.updated) THEN index ELSE primary

PickPrimary(allItems, indexes, k, primary) ==
  IF k > Len(indexes) THEN primary
  ELSE PickPrimary(allItems, indexes, k + 1,
                   NextPrimary(indexes[k], allItems[indexes[k]],
                               primary, allItems[primary]))

PrimaryOf(allItems, indexes) == PickPrimary(allItems, indexes, 1, indexes[1])

RECURSIVE SumSeq(_, _)
SumSeq(seq, i) == IF i > Len(seq) THEN 0 ELSE seq[i] + SumSeq(seq, i + 1)

\* the empty cache without its warning
MissingItemsCacheSilent(latest) ==
  [allItems |-> <<>>, idIndexes |-> EmptyMap, primaryById |-> EmptyMap,
   latestMtime |-> latest, warnings |-> <<>>]

MissingItemsCache(latest) ==
  [allItems |-> <<>>, idIndexes |-> EmptyMap, primaryById |-> EmptyMap,
   latestMtime |-> latest, warnings |-> <<"Missing items directory">>]

\* The four walks of LoadProduct (lines 535-607): the records in discovery order
\* A builder that throws ends the walk and the rebuild: the sequence holds the
\* exception in the place of the record.
WalkRecords(files, order, productRoot, backlogRoot) ==
  [i \in 1..Len(order.items) |-> ParseItem(files, order.items[i], productRoot)]
  \o [i \in 1..Len(order.decisions) |->
        ParseDecision(files, order.decisions[i], productRoot)]
  \o [i \in 1..Len(order.topics) |->
        ParseTopicManifest(files, order.topics[i], backlogRoot)]
  \o [i \in 1..Len(order.worksets) |->
        ParseWorksetManifest(files, order.worksets[i], backlogRoot)]

\* the ReadTextFile calls made for each entry of the walks
WalkReadCounts(files, order) ==
  [i \in 1..Len(order.items) |-> ItemReads]
  \o [i \in 1..Len(order.decisions) |-> ItemReads]
  \o [i \in 1..Len(order.topics) |-> TopicReads(files, order.topics[i])]
  \o [i \in 1..Len(order.worksets) |-> WorksetReads(files, order.worksets[i])]

WalkReads(files, order) == SumSeq(WalkReadCounts(files, order), 1)

\* lines 609-614
IdIndexes(allItems) == [id \in IndexIds(allItems) |-> PositionsOf(allItems, id)]

\* lines 616-632
PrimaryById(allItems, idIndexes) ==
  [id \in DOMAIN idIndexes |-> PrimaryOf(allItems, idIndexes[id])]

IndexedCache(allItems, idIndexes, latest) ==
  [allItems |-> allItems,
   idIndexes |-> idIndexes,
   primaryById |-> PrimaryById(allItems, idIndexes),
   latestMtime |-> latest,
   warnings |-> WarningsOf(allItems, 1)]

CacheOfRecords(allItems, latest) == IndexedCache(allItems, IdIndexes(allItems), latest)

\* the place of the first exception among the outcomes of the builders, 0 when none
\* threw
FirstThrown(records) ==
  IF \A i \in 1..Len(records) : ~Threw(records[i]) THEN 0
  ELSE CHOOSE i \in 1..Len(records) :
         Threw(records[i]) /\ \A k \in 1..(i - 1) : ~Threw(records[k])

\* lines 535-634 given what the builders returned and read: the entry built, or the
\* exception that left LoadProduct before line 634, with the files read until then
OutcomeOfWalk(records, counts, latest) ==
  IF FirstThrown(records) = 0
  THEN [thrown |-> FALSE, cache |-> CacheOfRecords(records, latest),
        reads |-> SumSeq(counts, 1)]
  ELSE [thrown |-> TRUE, reads |-> SumSeq(SubSeq(counts, 1, FirstThrown(records)), 1)]

\* The ProductCache one rebuild produces, and the number of files it read
BuildProductCache(files, root, product, order) ==
  IF ~Exists(files, Append(ProductRoot(root, product), "items"))
  THEN [thrown |-> FALSE,
        cache |-> MissingItemsCache(ScanLatestMtime(files, root, ProductRoot(root, product))),
        reads |-> 0]
  ELSE OutcomeOfWalk(
         WalkRecords(files, order, ProductRoot(root, product), BacklogRoot(root)),
         WalkReadCounts(files, order),
         ScanLatestMtime(files, root, ProductRoot(root, product)))

\* Every outcome a rebuild of product can have on this filesystem
RebuildOutcomes(files, root, product) ==
  {BuildProductCache(files, root, product, order) :
     order \in LoadOrders(files, root, product)}

\* the entries the rebuilds that complete can install
RebuiltCaches(files, root, product) ==
  {o.cache : o \in {q \in RebuildOutcomes(files, root, product) : ~q.thrown}}

\* what LoadProduct leaves of one rebuild: the entry of line 634, or the exception
LoadOf(o) ==
  IF o.thrown THEN [thrown |-> TRUE, reads |-> o.reads, rebuilt |-> FALSE]
  ELSE [thrown |-> FALSE, cache |-> o.cache, reads |-> o.reads, rebuilt |-> TRUE]

\* LoadProduct writing the new records into the entry it finds, whose watermark stays
LoadProductInPlace(files, root, cache, product, forceRefresh) ==
  IF ~ShouldLoad(files, root, cache, product, forceRefresh)
  THEN {[thrown |-> FALSE, cache |-> cache[product], reads |-> 0, rebuilt |-> FALSE]}
  ELSE {[thrown |-> FALSE,
         cache |-> IF product \in DOMAIN cache
                   THEN [o.cache EXCEPT !.latestMtime = cache[product].latestMtime]
                   ELSE o.cache,
         reads |-> o.reads, rebuilt |-> TRUE] :
          o \in {q \in RebuildOutcomes(files, root, product) : ~q.thrown}}

\* LoadProduct: the outcomes of the call, as [thrown, cache, reads, rebuilt]; an
\* exception leaves the map as it was
LoadProduct(files, root, cache, product, forceRefresh) ==
  IF ~ShouldLoad(files, root, cache, product, forceRefresh)
  THEN {[thrown |-> FALSE, cache |-> cache[product], reads |-> 0, rebuilt |-> FALSE]}
  ELSE {LoadOf(o) : o \in RebuildOutcomes(files, root, product)}

-----------------------------------------------------------------------------
(* Queries *)

ItemToJson(item, includeContent) ==
  [id |-> item.id, type |-> item.type, source_kind |-> item.sourceKind,
   title |-> item.title, state |-> item.state, parent |-> item.parent,
   created |-> item.created, updated |-> item.updated, path |-> item.relativePath,
   valid |-> item.valid]
  @@ (IF item.parseError # "" THEN [parse_error |-> item.parseError] ELSE EmptyMap)
  @@ (IF includeContent THEN [content |-> item.rawContent] ELSE EmptyMap)

\* ToIsoString (lines 498-516): the empty string for the minimum time, otherwise the
\* instant to the second; the clock of the model counts seconds from its epoch
ToIsoString(value) ==
  IF value = FileTimeMin THEN ""
  ELSE "1970-01-01T00:00:0" \o Ch(DigitChars, value + 1) \o "Z"

\* The answers of ListItems. A response without the "error" member has error = "",
\* one without "cached_at" has cached_at = ""
OkResponse(items, warnings, latestMtime) ==
  [error |-> "", items |-> items, warnings |-> warnings,
   cached_at |-> ToIsoString(latestMtime)]

ErrorResponse(message) ==
  [error |-> message, items |-> <<>>, warnings |-> <<>>, cached_at |-> ""]

\* the entry of the record discovered first under the id
ListEntryOfFirst(productCache, id) ==
  ItemToJson(productCache.allItems[productCache.idIndexes[id][1]], FALSE)
  @@ [duplicate_count |-> Len(productCache.idIndexes[id])]

\* the entry without its count of duplicates
ListEntryPlain(productCache, id) ==
  ItemToJson(productCache.allItems[productCache.primaryById[id]], FALSE)

\* one entry of the items array of ListItems (lines 683-690)
ListEntry(productCache, id) ==
  ItemToJson(productCache.allItems[productCache.primaryById[id]], FALSE)
  @@ (IF id \in DOMAIN productCache.idIndexes
      THEN [duplicate_count |-> Len(productCache.idIndexes[id])] ELSE EmptyMap)

\* ListItems listing every indexed record instead of every primary
ListItemsResponsesOfAll(productCache) ==
  {OkResponse(
     [i \in 1..Len(productCache.allItems) |->
        ItemToJson(productCache.allItems[i], FALSE)
        @@ [duplicate_count |-> 1]],
     productCache.warnings, productCache.latestMtime)}

\* The responses ListItems can build from a cache entry (lines 677-694): primaryById
\* is an unordered_map, iterated in an unspecified order
ListItemsResponses(productCache) ==
  {OkResponse([i \in 1..Len(idOrder) |-> ListEntry(productCache, idOrder[i])],
              productCache.warnings, productCache.latestMtime) :
     idOrder \in Orderings(DOMAIN productCache.primaryById)}

\* ListItems after LoadProduct (lines 671-694)
ListItemsAfterLoad(cache, product, load) ==
  IF product \notin DOMAIN cache
  THEN {[cache |-> cache, reads |-> load.reads, rebuilt |-> load.rebuilt,
         response |-> ErrorResponse("Product not found")]}
  ELSE {[cache |-> cache, reads |-> load.reads, rebuilt |-> load.rebuilt,
         response |-> r] : r \in ListItemsResponses(cache[product])}

\* a query left by the exception of its LoadProduct call: no response, the map as it
\* was
Aborted(cache, load) ==
  [cache |-> cache, reads |-> load.reads, rebuilt |-> FALSE, response |-> LogicError]

\* ListItems from line 671 on, given the outcome of LoadProduct
ListItemsOfLoad(cache, product, load) ==
  IF load.thrown THEN {Aborted(cache, load)}
  ELSE ListItemsAfterLoad(MapPut(cache, product, load.cache), product, load)

\* ListItems testing the name only after the load
ListItemsResultsLoadingFirst(files, root, cache, product, forceRefresh) ==
  UNION {IF IsValidProductName(product)
         THEN ListItemsAfterLoad(MapPut(cache, product, load.cache), product, load)
         ELSE {[cache |-> MapPut(cache, product, load.cache), reads |-> load.reads,
                rebuilt |-> load.rebuilt,
                response |-> ErrorResponse("Invalid product name")]} :
           load \in LoadProduct(files, root, cache, product, forceRefresh)}

\* ListItems (lines 660-695): every outcome of the call, as the cache map it leaves,
\* the files it read, whether it rebuilt, and its response
ListItemsResults(files, root, cache, product, forceRefresh) ==
  IF ~IsValidProductName(product)
  THEN {[cache |-> cache, reads |-> 0, rebuilt |-> FALSE,
         response |-> ErrorResponse("Invalid product name")]}
  ELSE UNION {ListItemsOfLoad(cache, product, load) :
                load \in LoadProduct(files, root, cache, product, forceRefresh)}

\* The answers of GetItem. A response without the "error" member has error = "",
\* one without "item" has the empty object as item
ItemResponse(item, duplicates) == [error |-> "", item |-> item, duplicates |-> duplicates]

ItemError(message) == [error |-> message, item |-> EmptyMap, duplicates |-> <<>>]

\* GetItem answering the record discovered first instead of the primary
FoundItemFirst(productCache, id) ==
  ItemResponse(
    ItemToJson(productCache.allItems[productCache.idIndexes[id][1]], TRUE),
    [k \in 1..Len(productCache.idIndexes[id]) |->
       ItemToJson(productCache.allItems[productCache.idIndexes[id][k]], FALSE)])

\* GetItem lines 717-727: the primary with its content, and every record sharing the
\* id in the order of idIndexes
FoundItem(productCache, id) ==
  ItemResponse(
    ItemToJson(productCache.allItems[productCache.primaryById[id]], TRUE),
    IF id \in DOMAIN productCache.idIndexes
    THEN [k \in 1..Len(productCache.idIndexes[id]) |->
            ItemToJson(productCache.allItems[productCache.idIndexes[id][k]], FALSE)]
    ELSE <<>>)

\* GetItem after LoadProduct (lines 705-728)
GetItemAfterLoad(cache, product, id) ==
  IF product \notin DOMAIN cache THEN ItemError("Product not found")
  ELSE IF id \notin DOMAIN cache[product].primaryById THEN ItemError("Item not found")
  ELSE FoundItem(cache[product], id)

GetItemOfLoad(cache, product, id, load) ==
  IF load.thrown THEN Aborted(cache, load)
  ELSE [cache |-> MapPut(cache, product, load.cache), reads |-> load.reads,
        rebuilt |-> load.rebuilt,
        response |-> GetItemAfterLoad(MapPut(cache, product, load.cache), product, id)]

\* GetItem (lines 697-729): every outcome of the call
GetItemResults(files, root, cache, product, id, forceRefresh) ==
  IF ~IsValidProductName(product)
  THEN {[cache |-> cache, reads |-> 0, rebuilt |-> FALSE,
         response |-> ItemError("Invalid product name")]}
  ELSE {GetItemOfLoad(cache, product, id, load) :
          load \in LoadProduct(files, root, cache, product, forceRefresh)}

\* the lane by the exact spellings only
LaneOfLoweredExact(state, lowered) ==
  IF state = "InProgress" THEN "Doing"
  ELSE IF state = "Blocked" THEN "Blocked"
  ELSE IF state = "Review" THEN "Review"
  ELSE IF state = "Done" THEN "Done"
  ELSE "Backlog"

\* BuildKanban lines 857-870; lowered is text::ToLower(state)
LaneOfLowered(state, lowered) ==
  IF state = "InProgress" THEN "Doing"
  ELSE IF state = "Blocked" \/ lowered = "blocked" THEN "Blocked"
  ELSE IF state = "Review" \/ lowered = "review" THEN "Review"
  ELSE IF state = "Done" \/ lowered = "done" \/ lowered = "closed" THEN "Done"
  ELSE IF lowered = "inprogress" \/ lowered = "active" THEN "Doing"
  ELSE "Backlog"

LaneOf(state) == LaneOfLowered(state, ToLower(state))

Lanes == {"Backlog", "Doing", "Blocked", "Review", "Done"}

HierarchyTypes == {"Epic", "Feature", "UserStory", "Task", "Bug", "Theme"}

\* the lanes holding only the items of the hierarchy
KanbanResponseOfHierarchy(itemsResponse) ==
  IF itemsResponse.error # ""
  THEN [error |-> itemsResponse.error, lanes |-> [lane \in Lanes |-> <<>>],
        warnings |-> <<>>]
  ELSE [error |-> "",
        lanes |-> [lane \in Lanes |->
                     SelectSeq(itemsResponse.items,
                               LAMBDA item : /\ LaneOf(item.state) = lane
                                             /\ item.type \in HierarchyTypes)],
        warnings |-> itemsResponse.warnings]

\* BuildKanban (lines 838-879), given the response of its ListItems call
KanbanResponse(itemsResponse) ==
  IF Threw(itemsResponse) THEN itemsResponse
  ELSE IF itemsResponse.error # ""
  THEN [error |-> itemsResponse.error, lanes |-> [lane \in Lanes |-> <<>>],
        warnings |-> <<>>]
  ELSE [error |-> "",
        lanes |-> [lane \in Lanes |->
                     SelectSeq(itemsResponse.items, LAMBDA item : LaneOf(item.state) = lane)],
        warnings |-> itemsResponse.warnings]

\* the items BuildTree keeps in each of its three loops (lines 748-756)
TreeItems(items) ==
  SelectSeq(items, LAMBDA item : item.type \in HierarchyTypes /\ item.id # "")

TreeNode(item) ==
  [id |-> item.id, title |-> item.title, type |-> item.type, state |-> item.state,
   parent |-> item.parent, children |-> <<>>]

SeqIds(items) == {items[i].id : i \in 1..Len(items)}

\* byId and childIds (lines 743-786)
TreeIndex(items) ==
  [byId |-> [id \in SeqIds(items) |->
               TreeNode(items[CHOOSE i \in 1..Len(items) :
                                /\ items[i].id = id
                                /\ \A j \in i + 1..Len(items) : items[j].id # id])],
   childIds |-> [parent \in {items[i].parent : i \in 1..Len(items)} \ {""} |->
                   LET kids == SelectSeq(items, LAMBDA item : item.parent = parent)
                   IN [i \in 1..Len(kids) |-> kids[i].id]]]

\* only the first child of a node
ChildIdsOfFirst(index, nodeId) ==
  IF nodeId \in DOMAIN index.childIds THEN <<index.childIds[nodeId][1]>> ELSE <<>>

ChildIdsOf(index, nodeId) ==
  IF nodeId \in DOMAIN index.childIds THEN index.childIds[nodeId] ELSE <<>>

\* the orphan warning without the test for an empty parent
RECURSIVE OrphanWarningsUnguarded(_, _, _)
OrphanWarningsUnguarded(items, allIds, i) ==
  IF i > Len(items) THEN <<>>
  ELSE (IF items[i].parent \notin allIds
        THEN <<"Orphan parent missing for item " \o items[i].id \o ": " \o items[i].parent>>
        ELSE <<>>)
       \o OrphanWarningsUnguarded(items, allIds, i + 1)

RECURSIVE OrphanWarnings(_, _, _)
OrphanWarnings(items, allIds, i) ==
  IF i > Len(items) THEN <<>>
  ELSE (IF items[i].parent # "" /\ items[i].parent \notin allIds
        THEN <<"Orphan parent missing for item " \o items[i].id \o ": " \o items[i].parent>>
        ELSE <<>>)
       \o OrphanWarnings(items, allIds, i + 1)

RECURSIVE AttachLoop(_, _, _, _, _)

\* attachChildren (lines 791-809): the node with its subtree, and the walk's state
\* st = [visiting, visited, warnings] after it
AttachChildren(index, node, nodeId, st) ==
  AttachLoop(index, node, nodeId, 1,
             [st EXCEPT !.visiting = @ \cup {nodeId}, !.visited = @ \cup {nodeId}])

AttachChild(index, node, nodeId, k, sub) ==
  AttachLoop(index, [node EXCEPT !.children = Append(@, sub.node)], nodeId, k + 1, sub.st)

AttachLoop(index, node, nodeId, k, st) ==
  IF k > Len(ChildIdsOf(index, nodeId))
  THEN [node |-> node, st |-> [st EXCEPT !.visiting = @ \ {nodeId}]]
  ELSE IF ChildIdsOf(index, nodeId)[k] \notin DOMAIN index.byId
  THEN AttachLoop(index, node, nodeId, k + 1, st)
  ELSE IF ChildIdsOf(index, nodeId)[k] \in st.visiting
  THEN AttachLoop(index, node, nodeId, k + 1,
         [st EXCEPT !.warnings =
            Append(@, "Cycle detected at " \o ChildIdsOf(index, nodeId)[k])])
  ELSE AttachChild(index, node, nodeId, k,
         AttachChildren(index, index.byId[ChildIdsOf(index, nodeId)[k]],
                        ChildIdsOf(index, nodeId)[k], st))

RECURSIVE RootLoop(_, _, _, _, _)

RootAttached(index, items, k, roots, sub) ==
  RootLoop(index, items, k + 1, Append(roots, sub.node), sub.st)

\* the loop over the roots taking every item as a root
RootLoopAll(index, items, k, roots, st) ==
  IF k > Len(items) THEN [roots |-> roots, st |-> st]
  ELSE RootAttached(index, items, k, roots,
         AttachChildren(index, index.byId[items[k].id], items[k].id, st))

\* the loop over the roots taking every item not yet visited as a root
RootLoopEveryItem(index, items, k, roots, st) ==
  IF k > Len(items) THEN [roots |-> roots, st |-> st]
  ELSE IF items[k].id \in st.visited
  THEN RootLoop(index, items, k + 1, roots, st)
  ELSE RootAttached(index, items, k, roots,
         AttachChildren(index, index.byId[items[k].id], items[k].id, st))

\* the loop over the roots taking only the items without a parent
RootLoopParentless(index, items, k, roots, st) ==
  IF k > Len(items) THEN [roots |-> roots, st |-> st]
  ELSE IF items[k].parent # "" \/ items[k].id \in st.visited
  THEN RootLoop(index, items, k + 1, roots, st)
  ELSE RootAttached(index, items, k, roots,
         AttachChildren(index, index.byId[items[k].id], items[k].id, st))

\* the loop over the roots (lines 811-829)
RootLoop(index, items, k, roots, st) ==
  IF k > Len(items) THEN [roots |-> roots, st |-> st]
  ELSE IF ~(items[k].parent = "" \/ items[k].parent \notin DOMAIN index.byId)
          \/ items[k].id \in st.visited
  THEN RootLoop(index, items, k + 1, roots, st)
  ELSE RootAttached(index, items, k, roots,
         AttachChildren(index, index.byId[items[k].id], items[k].id, st))

TreeOfWalk(walk, itemWarnings) ==
  [error |-> "", roots |-> walk.roots, warnings |-> walk.st.warnings \o itemWarnings]

TreeOfItems(items, index, itemWarnings) ==
  TreeOfWalk(RootLoop(index, items, 1, <<>>,
                      [visiting |-> {}, visited |-> {},
                       warnings |-> OrphanWarnings(items, DOMAIN index.byId, 1)]),
             itemWarnings)

TreeOfEligible(items, itemWarnings) == TreeOfItems(items, TreeIndex(items), itemWarnings)

\* BuildTree (lines 731-836), given the response of its ListItems call
TreeResponse(itemsResponse) ==
  IF Threw(itemsResponse) THEN itemsResponse
  ELSE IF itemsResponse.error # ""
  THEN [error |-> itemsResponse.error, roots |-> <<>>, warnings |-> <<>>]
  ELSE TreeOfEligible(TreeItems(itemsResponse.items), itemsResponse.warnings)

-----------------------------------------------------------------------------
(* The texts and the calls of the model *)

ProductNames == {"p1", "p2", "p1/.."}

NoCache == [p \in {} |-> MissingItemsCache(FileTimeMin)]

\* The last step taken: the call and its arguments, whether the product had a cache
\* entry when the call came (for SwitchWorkspace: whether the map held any entry), and
\* whether the call rebuilt it
EnvStep ==
  [op |-> "env", product |-> "", forceRefresh |-> FALSE, cached |-> FALSE,
   rebuilt |-> FALSE]

Call(op, product, forceRefresh, cached, rebuilt) ==
  [op |-> op, product |-> product, forceRefresh |-> forceRefresh, cached |-> cached,
   rebuilt |-> rebuilt]

\* no call has answered since the last step of the environment
NoResponse == [error |-> "", items |-> <<>>, warnings |-> <<>>]

\* The answers of Refresh (lines 881-895)
Refreshed(what) == [error |-> "", refreshed |-> what]

RefreshError(message) == [error |-> message, refreshed |-> ""]

File(mtime, content) ==
  [present |-> TRUE, mtime |-> mtime, content |-> content, readable |-> TRUE]

MaxClock == 2

MaxFiles == 3

MaxLines == 4

-----------------------------------------------------------------------------
(* Actions *)

\* What a query leaves behind: r is one of ListItemsResults
Served(op, product, forceRefresh, r, resp) ==
  /\ cacheByProduct' = r.cache
  /\ snapshot' = IF r.rebuilt THEN MapPut(snapshot, product, fs) ELSE snapshot
  /\ readCount' = r.reads
  /\ request' = Call(op, product, forceRefresh, product \in DOMAIN cacheByProduct, r.rebuilt)
  /\ response' = resp
  /\ UNCHANGED <<fs, clock, productsRoot>>

ListItems(product, forceRefresh) ==
  \E r \in ListItemsResults(fs, productsRoot, cacheByProduct, product, forceRefresh) :
    Served("ListItems", product, forceRefresh, r, r.response)

GetItem(product, id, forceRefresh) ==
  \E r \in GetItemResults(fs, productsRoot, cacheByProduct, product, id, forceRefresh) :
    /\ cacheByProduct' = r.cache
    /\ snapshot' = IF r.rebuilt THEN MapPut(snapshot, product, fs) ELSE snapshot
    /\ readCount' = r.reads
    /\ request' = Call("GetItem", product, forceRefresh,
                       product \in DOMAIN cacheByProduct, r.rebuilt) @@ [id |-> id]
    /\ response' = r.response
    /\ UNCHANGED <<fs, clock, productsRoot>>

BuildTree(product, forceRefresh) ==
  \E r \in ListItemsResults(fs, productsRoot, cacheByProduct, product, forceRefresh) :
    Served("BuildTree", product, forceRefresh, r, TreeResponse(r.response))

BuildKanban(product, forceRefresh) ==
  \E r \in ListItemsResults(fs, productsRoot, cacheByProduct, product, forceRefresh) :
    Served("BuildKanban", product, forceRefresh, r, KanbanResponse(r.response))

\* Refresh dropping every entry whatever the product named
RefreshAll(product) ==
  /\ UNCHANGED <<fs, clock, productsRoot>>
  /\ readCount' = 0
  /\ request' = Call("Refresh", product, FALSE, product \in DOMAIN cacheByProduct, FALSE)
  /\ IF product # "" /\ ~IsValidProductName(product)
     THEN /\ response' = RefreshError("Invalid product name")
          /\ UNCHANGED <<cacheByProduct, snapshot>>
     ELSE /\ cacheByProduct' = NoCache
          /\ snapshot' = EmptyMap
          /\ response' = Refreshed(IF product = "" THEN "all" ELSE product)

\* the entries left by a Refresh that drops nothing
CacheAfterRefreshKept(cache, product) == cache

\* the entries Refresh leaves (lines 883-893)
CacheAfterRefresh(cache, product) ==
  IF product = "" THEN NoCache
  ELSE IF ~IsValidProductName(product) THEN cache
  ELSE [p \in DOMAIN cache \ {product} |-> cache[p]]

\* Refresh(product), lines 881-895
Refresh(product) ==
  /\ UNCHANGED <<fs, clock, productsRoot>>
  /\ readCount' = 0
  /\ request' = Call("Refresh", product, FALSE, product \in DOMAIN cacheByProduct, FALSE)
  /\ IF product = ""
     THEN /\ cacheByProduct' = NoCache
          /\ snapshot' = EmptyMap
          /\ response' = Refreshed("all")
     ELSE IF ~IsValidProductName(product)
     THEN /\ response' = RefreshError("Invalid product name")
          /\ UNCHANGED <<cacheByProduct, snapshot>>
     ELSE /\ cacheByProduct' = CacheAfterRefresh(cacheByProduct, product)
          /\ snapshot' = [p \in DOMAIN snapshot \ {product} |-> snapshot[p]]
          /\ response' = Refreshed(product)

\* The answers of SwitchWorkspace (lines 904-932)
Switched(root) ==
  [error |-> "", products_root |-> AbsoluteString(root),
   workspace_root |-> AbsoluteString(ParentPath(root)), switched |-> TRUE]

SwitchError(message) ==
  [error |-> message, products_root |-> "", workspace_root |-> "", switched |-> FALSE]

\* The texts given to SwitchWorkspace, and the path of each of them trimmed
SwitchInputs ==
  {"", "  ", "/ws", " /ws\n", "/ws/.", "/ws/products", "/ws/products/", "/w2",
   "/w2/products", "/nowhere"}

PathOfInputs == [text \in SwitchInputs |-> PathOf(Trim(text))]

\* the switch leaving the old entries in the cache
SwitchOutcomeKeepingCache(files, root, cache, inputPath, resolved) ==
  IF Trim(inputPath) = ""
  THEN [root |-> root, cache |-> cache, switched |-> FALSE,
        response |-> SwitchError("Missing workspace path")]
  ELSE IF resolved = <<>>
  THEN [root |-> root, cache |-> cache, switched |-> FALSE,
        response |->
          SwitchError("Path does not contain a backlog products directory (expected products/ or _kano/backlog/products/)")]
  ELSE [root |-> WeaklyCanonical(resolved), cache |-> cache, switched |-> FALSE,
        response |-> Switched(WeaklyCanonical(resolved))]

\* the switch leaving the old products root
SwitchOutcomeKeepingRoot(files, root, cache, inputPath, resolved) ==
  IF Trim(inputPath) = ""
  THEN [root |-> root, cache |-> cache, switched |-> FALSE,
        response |-> SwitchError("Missing workspace path")]
  ELSE IF resolved = <<>>
  THEN [root |-> root, cache |-> cache, switched |-> FALSE,
        response |->
          SwitchError("Path does not contain a backlog products directory (expected products/ or _kano/backlog/products/)")]
  ELSE [root |-> root, cache |-> NoCache, switched |-> TRUE,
        response |-> Switched(root)]

\* the switch dropping the entries before it knows whether the path resolves
SwitchOutcomeClearingFirst(files, root, cache, inputPath, resolved) ==
  IF Trim(inputPath) = ""
  THEN [root |-> root, cache |-> cache, switched |-> FALSE,
        response |-> SwitchError("Missing workspace path")]
  ELSE IF resolved = <<>>
  THEN [root |-> root, cache |-> NoCache, switched |-> FALSE,
        response |->
          SwitchError("Path does not contain a backlog products directory (expected products/ or _kano/backlog/products/)")]
  ELSE [root |-> WeaklyCanonical(resolved), cache |-> NoCache, switched |-> TRUE,
        response |-> Switched(WeaklyCanonical(resolved))]

\* SwitchWorkspace (lines 904-932), given what ResolveProductsPathFromInput returned
\* for the trimmed input: the products root and the cache map it leaves, and its
\* response
SwitchOutcome(files, root, cache, inputPath, resolved) ==
  IF Trim(inputPath) = ""
  THEN [root |-> root, cache |-> cache, switched |-> FALSE,
        response |-> SwitchError("Missing workspace path")]
  ELSE IF resolved = <<>>
  THEN [root |-> root, cache |-> cache, switched |-> FALSE,
        response |->
          SwitchError("Path does not contain a backlog products directory (expected products/ or _kano/backlog/products/)")]
  ELSE [root |-> WeaklyCanonical(resolved), cache |-> NoCache, switched |-> TRUE,
        response |-> Switched(WeaklyCanonical(resolved))]

SwitchWorkspace(inputPath) ==
  \E o \in {SwitchOutcome(fs, productsRoot, cacheByProduct, inputPath,
                          ResolveProductsPathFromInput(fs, PathOfInputs[inputPath]))} :
    /\ productsRoot' = o.root
    /\ cacheByProduct' = o.cache
    /\ snapshot' = IF o.switched THEN EmptyMap ELSE snapshot
    /\ response' = o.response
    /\ request' = Call("SwitchWorkspace", "", FALSE, cacheByProduct # NoCache, FALSE)
                     @@ [inputPath |-> inputPath]
    /\ readCount' = 0
    /\ UNCHANGED <<fs, clock>>

\* The environment writes a file: its mtime becomes the clock's next value
WriteFile(path, content, readable) ==
  /\ clock < MaxClock
  /\ clock' = clock + 1
  /\ fs' = [fs EXCEPT ![path] = [present |-> TRUE, mtime |-> clock + 1,
                                 content |-> content, readable |-> readable]]
  /\ request' = EnvStep
  /\ response' = NoResponse
  /\ readCount' = 0
  /\ UNCHANGED <<productsRoot, cacheByProduct, snapshot>>

\* The environment deletes a file
DeleteFile(path) ==
  /\ fs[path].present
  /\ fs' = [fs EXCEPT ![path] = NoFile]
  /\ request' = EnvStep
  /\ response' = NoResponse
  /\ readCount' = 0
  /\ UNCHANGED <<clock, productsRoot, cacheByProduct, snapshot>>

\* What the environment writes where
Edits ==
  {<<ItemFileA, TextA2>>, <<ItemFileB, TextB>>, <<ItemFileB, TextNoEnd>>,
   <<TopicManifest, ManifestFull>>, <<TopicBrief, TextPlain>>,
   <<OtherDecisionFile, TextDecision>>, <<TrashTopicManifest, ManifestBlank>>}

\* The rebuild of LoadProduct taken in two steps, the environment writing in between.
\* While a rebuild is under way, request holds the watermark the scan of line 527
\* found and the history of the filesystem: as the scan left it, and as every write
\* since has left it.
Loading == request.op = "LoadProduct"

\* the watermark stored after the walks had it been scanned then
WatermarkAfterReads(scanned, files, root, product) ==
  ScanLatestMtime(files, root, ProductRoot(root, product))

\* the watermark the new entry carries: the one scanned before the walks (line 527)
WatermarkOfLoad(scanned, files, root, product) == scanned

\* lines 520-527: the staleness test and the scan
StartLoad(product) ==
  /\ ~Loading
  /\ IsValidProductName(product)
  /\ ShouldLoad(fs, productsRoot, cacheByProduct, product, FALSE) = TRUE
  /\ request' = Call("LoadProduct", product, FALSE, product \in DOMAIN cacheByProduct, TRUE)
                  @@ [latest |-> ScanLatestMtime(fs, productsRoot,
                                                 ProductRoot(productsRoot, product)),
                      history |-> <<fs>>]
  /\ response' = NoResponse
  /\ readCount' = 0
  /\ UNCHANGED <<fs, clock, productsRoot, cacheByProduct, snapshot>>

\* The moments at which the rebuild looks at the filesystem, one after the other, each
\* a position in the history: the test of the items directory (line 529), then for
\* every entry of the walks three moments, the first open of its file, the test and
\* the read of brief.md, and the second open of a manifest.
RECURSIVE NonDecreasing(_, _, _)
NonDecreasing(n, lo, hi) ==
  IF n = 0 THEN {<<>>}
  ELSE UNION {{<<t>> \o rest : rest \in NonDecreasing(n - 1, t, hi)} : t \in lo..hi}

\* the entries of the four walks in the order of one rebuild (lines 535-607)
WalkEntries(order) ==
  [i \in 1..Len(order.items) |-> [walk |-> "items", path |-> order.items[i]]]
  \o [i \in 1..Len(order.decisions) |-> [walk |-> "decisions", path |-> order.decisions[i]]]
  \o [i \in 1..Len(order.topics) |-> [walk |-> "topics", path |-> order.topics[i]]]
  \o [i \in 1..Len(order.worksets) |-> [walk |-> "worksets", path |-> order.worksets[i]]]

\* the record a walk makes of an entry, none when the file is not there yet as the
\* walk comes by
MetRecord(entry, first, briefs, again, productRoot, backlogRoot) ==
  IF ~first[entry.path].present THEN <<>>
  ELSE IF entry.walk = "items" THEN <<ParseItem(first, entry.path, productRoot)>>
  ELSE IF entry.walk = "decisions" THEN <<ParseDecision(first, entry.path, productRoot)>>
  ELSE IF entry.walk = "topics"
  THEN <<ParseTopicManifestOver(first, briefs, again, entry.path, backlogRoot)>>
  ELSE <<ParseWorksetManifestOver(first, again, entry.path, backlogRoot)>>

RECURSIVE MetRecords(_, _, _, _, _, _)
MetRecords(history, entries, at, i, productRoot, backlogRoot) ==
  IF i > Len(entries) THEN <<>>
  ELSE MetRecord(entries[i], history[at[3 * i - 1]], history[at[3 * i]],
                 history[at[3 * i + 1]], productRoot, backlogRoot)
       \o MetRecords(history, entries, at, i + 1, productRoot, backlogRoot)

\* the ReadTextFile calls made for an entry, none for one that is not there yet
MetReads(entry, first, briefs) ==
  IF ~first[entry.path].present THEN <<>>
  ELSE IF entry.walk \in {"items", "decisions"} THEN <<ItemReads>>
  ELSE IF entry.walk = "topics" THEN <<TopicReadsOver(first, briefs, entry.path)>>
  ELSE <<WorksetReads(first, entry.path)>>

RECURSIVE MetReadCounts(_, _, _, _)
MetReadCounts(history, entries, at, i) ==
  IF i > Len(entries) THEN <<>>
  ELSE MetReads(entries[i], history[at[3 * i - 1]], history[at[3 * i]])
       \o MetReadCounts(history, entries, at, i + 1)

\* lines 529-632 over a history: the ProductCache built, or the exception, and the
\* number of files read
LoadOutcomeOver(history, root, product, entries, at, latest) ==
  IF ~Exists(history[at[1]], Append(ProductRoot(root, product), "items"))
  THEN [thrown |-> FALSE, cache |-> MissingItemsCache(latest), reads |-> 0]
  ELSE OutcomeOfWalk(MetRecords(history, entries, at, 1, ProductRoot(root, product),
                                BacklogRoot(root)),
                     MetReadCounts(history, entries, at, 1), latest)

\* of every file the version its first look found: the first open of an entry, the
\* test of a brief.md; a file the rebuild does not look at is taken as it is now
MetFiles(history, entries, at, current) ==
  [f \in FilePaths |->
     IF \E i \in 1..Len(entries) : entries[i].path = f
     THEN history[at[3 * (CHOOSE i \in 1..Len(entries) : entries[i].path = f) - 1]][f]
     ELSE IF \E i \in 1..Len(entries) :
               entries[i].walk = "topics"
                 /\ f = Append(ParentPath(entries[i].path), "brief.md")
     THEN history[at[3 * (CHOOSE i \in 1..Len(entries) :
                            entries[i].walk = "topics"
                              /\ f = Append(ParentPath(entries[i].path), "brief.md"))]][f]
     ELSE current[f]]

\* line 634 and ListItems lines 671-694: the assignment of the entry and the answer;
\* after an exception the map is as the call found it and there is no answer
InstallLoad(product, read, o) ==
  /\ cacheByProduct' = IF o.thrown THEN cacheByProduct
                       ELSE MapPut(cacheByProduct, product, o.cache)
  /\ snapshot' = IF o.thrown THEN snapshot ELSE MapPut(snapshot, product, read)
  /\ readCount' = o.reads
  /\ request' = Call("ListItems", product, FALSE, request.cached, ~o.thrown)
  /\ response' \in IF o.thrown THEN {LogicError}
                   ELSE ListItemsResponses(cacheByProduct'[product])
  /\ UNCHANGED <<fs, clock, productsRoot>>

\* the rest of the rebuild, lines 529-634. No file is deleted meanwhile, so the
\* entries the walks can meet are among those of the filesystem as it is now.
FinishLoad ==
  /\ Loading
  /\ \E order \in LoadOrders(fs, productsRoot, request.product) :
       \E at \in NonDecreasing(1 + 3 * Len(WalkEntries(order)), 1, Len(request.history)) :
         InstallLoad(request.product,
                     MetFiles(request.history, WalkEntries(order), at, fs),
                     LoadOutcomeOver(request.history, productsRoot, request.product,
                                     WalkEntries(order), at,
                                     WatermarkOfLoad(request.latest, fs, productsRoot,
                                                     request.product)))

\* ListItems answering from the entry it finds
ServeCached(product) ==
  /\ ~Loading
  /\ ~ShouldLoad(fs, productsRoot, cacheByProduct, product, FALSE)
  /\ ListItems(product, FALSE)

\* The environment writes a file while a rebuild is under way
WriteDuringLoad(path, content) ==
  /\ Loading
  /\ clock < MaxClock
  /\ clock' = clock + 1
  /\ fs' = [fs EXCEPT ![path] = File(clock + 1, content)]
  /\ request' = [request EXCEPT !.history = Append(@, fs')]
  /\ UNCHANGED <<productsRoot, cacheByProduct, snapshot, response, readCount>>

WriteBetweenCalls(path, content) == ~Loading /\ WriteFile(path, content, TRUE)

\* What the environment writes where while rebuilds are under way: the writes of
\* Edits, and manifests rewritten with another text
RaceEdits ==
  Edits \cup {<<TopicManifest, ManifestBlank>>, <<WorksetManifest, ManifestBlank>>}

InitRace ==
  /\ clock = 1
  /\ fs \in {[f \in FilePaths |->
                IF f = ItemFileA THEN File(1, TextA1)
                ELSE IF f = TopicManifest THEN t
                ELSE IF f = WorksetManifest THEN w
                ELSE NoFile] :
               t \in {NoFile, File(1, ManifestFull)},
               w \in {NoFile, File(1, ManifestFull)}}
  /\ productsRoot = <<"ws", "products">>
  /\ cacheByProduct = NoCache
  /\ snapshot = EmptyMap
  /\ request = EnvStep
  /\ response = NoResponse
  /\ readCount = 0

Init ==
  /\ clock = 1
  /\ fs = [f \in FilePaths |-> IF f = ItemFileA THEN File(1, TextA1) ELSE NoFile]
  /\ productsRoot = <<"ws", "products">>
  /\ cacheByProduct = NoCache
  /\ snapshot = EmptyMap
  /\ request = EnvStep
  /\ response = NoResponse
  /\ readCount = 0

Next ==
  \/ \E p \in ProductNames, force \in BOOLEAN : ListItems(p, force)
  \/ \E p \in ProductNames \cup {""} : Refresh(p)
  \/ \E e \in Edits : WriteFile(e[1], e[2], TRUE)
  \/ \E f \in FilePaths : DeleteFile(f)

Spec == Init /\ [][Next]_vars

\* The names the calls are given: a product, the two dot names the pattern of
\* IsValidProductName lets through, and names it refuses
CallNames == {"p1", ".", "..", "p1/..", "../p1"}

InitNames ==
  /\ clock = 1
  /\ fs \in {[f \in FilePaths |->
                IF f = ItemFileA THEN File(1, TextA1)
                ELSE IF f = RootItemFile THEN r
                ELSE IF f = OutsideItemFile THEN o
                ELSE NoFile] :
               r \in {NoFile, File(1, HierarchyText("C", "", ""))},
               o \in {NoFile, File(1, HierarchyText("B", "", ""))}}
  /\ productsRoot = <<"ws", "products">>
  /\ cacheByProduct = NoCache
  /\ snapshot = EmptyMap
  /\ request = EnvStep
  /\ response = NoResponse
  /\ readCount = 0

NextNames ==
  \/ \E p \in CallNames, force \in BOOLEAN : ListItems(p, force)
  \/ \E p \in CallNames : GetItem(p, "A", FALSE)
  \/ \E p \in CallNames : BuildTree(p, FALSE)
  \/ \E p \in CallNames : BuildKanban(p, FALSE)
  \/ \E p \in CallNames : Refresh(p)

SpecNames == InitNames /\ [][NextNames]_vars

NextRace ==
  \/ \E p \in {"p1", "p2"} : StartLoad(p)
  \/ FinishLoad
  \/ \E p \in {"p1", "p2"} : ServeCached(p)
  \/ \E e \in RaceEdits : WriteDuringLoad(e[1], e[2])
  \/ \E e \in RaceEdits : WriteBetweenCalls(e[1], e[2])

SpecRace == InitRace /\ [][NextRace]_vars

-----------------------------------------------------------------------------
(* The scans of a fixed filesystem: every filesystem of at most MaxFiles     *)
(* files drawn from ScanChoices, queried without the environment interfering *)

Unreadable == [present |-> TRUE, mtime |-> 1, content |-> "", readable |-> FALSE]

ScanChoices(f) ==
  IF f = ItemFileA THEN {File(1, TextA1), File(1, TextA9), File(1, TextNull), Unreadable}
  ELSE IF f = ItemFileB
  THEN {File(1, TextA1), File(1, TextA2), File(1, TextB), File(1, TextNoEnd)}
  ELSE IF f = ItemFileC THEN {File(1, TextA2)}
  ELSE IF f = ItemReadme THEN {File(1, TextPlain)}
  ELSE IF f = DecisionFile
  THEN {File(1, TextDecisionA), File(1, TextDecision), File(1, TextPlain)}
  ELSE IF f = TopicManifest THEN {File(1, ManifestFull), File(1, ManifestBroken)}
  ELSE IF f = TopicBrief THEN {File(1, TextPlain)}
  ELSE IF f = WorksetManifest THEN {File(1, ManifestEmpty), Unreadable}
  ELSE {}

\* The filesystems holding at most MaxFiles files, all of them among paths
RECURSIVE FilesystemsOver(_)
FilesystemsOver(paths) ==
  IF paths = {} THEN {[f \in FilePaths |-> NoFile]}
  ELSE LET path == CHOOSE f \in paths : TRUE
           rest == FilesystemsOver(paths \ {path})
       IN rest \cup
          {[files EXCEPT ![path] = choice] :
             files \in {r \in rest : Cardinality({f \in FilePaths : r[f].present}) < MaxFiles},
             choice \in ScanChoices(path)}

ScanFilesystems == FilesystemsOver(FilePaths)

InitScan ==
  /\ clock = 1
  /\ fs \in ScanFilesystems
  /\ productsRoot = <<"ws", "products">>
  /\ cacheByProduct = NoCache
  /\ snapshot = EmptyMap
  /\ request = EnvStep
  /\ response = NoResponse
  /\ readCount = 0

\* The ids GetItem is asked for
ItemIds == {"A", "B"}

NextScan ==
  \/ \E force \in BOOLEAN : ListItems("p1", force)
  \/ BuildTree("p1", FALSE)
  \/ BuildKanban("p1", FALSE)

SpecScan == InitScan /\ [][NextScan]_vars

\* The filesystems of the hierarchy: items A, B and C with every parent among
\* HierarchyParents, C also with a type outside the hierarchy, and two decisions
HierarchyChoices(f) ==
  IF f = ItemFileA
  THEN {File(1, HierarchyText("A", parent, "")) : parent \in HierarchyParents}
  ELSE IF f = ItemFileB
  THEN {File(1, HierarchyText("B", parent, "")) : parent \in HierarchyParents}
  ELSE IF f = ItemFileC
  THEN {File(1, HierarchyText("C", parent, type)) :
          parent \in HierarchyParents, type \in {"", "Note"}}
  ELSE IF f = DecisionFile THEN {File(1, TextDecision)}
  ELSE IF f = NullDecisionFile THEN {File(1, TextDecision)}
  ELSE {}

RECURSIVE HierarchiesOver(_)
HierarchiesOver(paths) ==
  IF paths = {} THEN {[f \in FilePaths |-> NoFile]}
  ELSE LET path == CHOOSE f \in paths : TRUE
           rest == HierarchiesOver(paths \ {path})
       IN rest \cup
          {[files EXCEPT ![path] = choice] :
             files \in {r \in rest : Cardinality({f \in FilePaths : r[f].present}) < MaxFiles},
             choice \in HierarchyChoices(path)}

HierarchyFilesystems == HierarchiesOver(FilePaths)

InitTree ==
  /\ clock = 1
  /\ fs \in HierarchyFilesystems
  /\ productsRoot = <<"ws", "products">>
  /\ cacheByProduct = NoCache
  /\ snapshot = EmptyMap
  /\ request = EnvStep
  /\ response = NoResponse
  /\ readCount = 0

NextTree ==
  \/ BuildTree("p1", FALSE)

SpecTree == InitTree /\ [][NextTree]_vars

\* The same filesystems, asked for single items
\* The filesystems of the board: items A and B in every state of KanbanStates, a
\* decision and a topic
KanbanChoices(f) ==
  IF f = ItemFileA THEN {File(1, StateText("A", state)) : state \in KanbanStates}
  ELSE IF f = ItemFileB THEN {File(1, StateText("B", state)) : state \in KanbanStates}
  ELSE IF f = DecisionFile THEN {File(1, TextDecisionA), File(1, TextDecision)}
  ELSE IF f = TopicManifest THEN {File(1, ManifestFull), File(1, ManifestBlank)}
  ELSE {}

RECURSIVE KanbanFilesystemsOver(_)
KanbanFilesystemsOver(paths) ==
  IF paths = {} THEN {[f \in FilePaths |-> NoFile]}
  ELSE LET path == CHOOSE f \in paths : TRUE
           rest == KanbanFilesystemsOver(paths \ {path})
       IN rest \cup
          {[files EXCEPT ![path] = choice] :
             files \in {r \in rest : Cardinality({f \in FilePaths : r[f].present}) < MaxFiles},
             choice \in KanbanChoices(path)}

KanbanFilesystems == KanbanFilesystemsOver(FilePaths)

InitKanban ==
  /\ clock = 1
  /\ fs \in KanbanFilesystems
  /\ productsRoot = <<"ws", "products">>
  /\ cacheByProduct = NoCache
  /\ snapshot = EmptyMap
  /\ request = EnvStep
  /\ response = NoResponse
  /\ readCount = 0

NextKanban ==
  \/ BuildKanban("p1", FALSE)

SpecKanban == InitKanban /\ [][NextKanban]_vars

\* Files that share ids and differ in title, state, parent and date
ViewChoices(f) ==
  IF f = ItemFileA
  THEN {File(1, HierarchyText("A", "", "")),
        File(1, ViewText("A", "B", "Done", "2024-01-03")),
        File(1, ViewText("B", "", "Review", "2024-01-01"))}
  ELSE IF f = ItemFileB
  THEN {File(1, HierarchyText("B", "A", "")),
        File(1, ViewText("A", "", "Blocked", "2024-01-01")),
        File(1, ViewText("B", "A", "Done", "2024-01-03"))}
  ELSE IF f = ItemFileC
  THEN {File(1, HierarchyText("A", "B", "")), File(1, HierarchyText("C", "A", "")),
        File(1, ViewText("A", "C", "InProgress", "2024-01-03")),
        File(1, ViewText("B", "", "Open", "2024-01-03"))}
  ELSE IF f = DecisionFile THEN {File(1, TextDecisionA)}
  ELSE {}

RECURSIVE ViewFilesystemsOver(_)
ViewFilesystemsOver(paths) ==
  IF paths = {} THEN {[f \in FilePaths |-> NoFile]}
  ELSE LET path == CHOOSE f \in paths : TRUE
           rest == ViewFilesystemsOver(paths \ {path})
       IN rest \cup
          {[files EXCEPT ![path] = choice] :
             files \in {r \in rest : Cardinality({f \in FilePaths : r[f].present}) < MaxFiles},
             choice \in ViewChoices(path)}

ViewFilesystems == ViewFilesystemsOver(FilePaths)

InitViews ==
  /\ clock = 1
  /\ fs \in ViewFilesystems
  /\ productsRoot = <<"ws", "products">>
  /\ cacheByProduct = NoCache
  /\ snapshot = EmptyMap
  /\ request = EnvStep
  /\ response = NoResponse
  /\ readCount = 0

NextViews ==
  \/ BuildTree("p1", FALSE)
  \/ BuildKanban("p1", FALSE)

SpecViews == InitViews /\ [][NextViews]_vars

\* The texts given to the frontmatter parser: every text of at most MaxLines lines
\* drawn from LineChoices, each line ended by a newline
LineChoices == {"---", " ---\r", "----", "id: A", "title: B"}

LineSeqs == UNION {[1..n -> LineChoices] : n \in 0..MaxLines}

RECURSIVE JoinLines(_)
JoinLines(lines) ==
  IF lines = <<>> THEN "" ELSE lines[1] \o "\n" \o JoinLines(Tail(lines))

InitParse ==
  /\ clock = 1
  /\ fs = [f \in FilePaths |-> NoFile]
  /\ productsRoot = <<"ws", "products">>
  /\ cacheByProduct = NoCache
  /\ snapshot = EmptyMap
  /\ request \in {[op |-> "input", lines |-> lines] : lines \in LineSeqs}
  /\ response = NoResponse
  /\ readCount = 0

\* ParseFrontmatterMap applied to the text of the lines drawn
ParseFrontmatter ==
  /\ request.op = "input"
  /\ request' = [op |-> "ParseFrontmatterMap", lines |-> request.lines]
  /\ response' = ParseFrontmatterMap(JoinLines(request.lines))
  /\ UNCHANGED <<fs, clock, productsRoot, cacheByProduct, snapshot, readCount>>

NextParse ==
  \/ ParseFrontmatter

SpecParse == InitParse /\ [][NextParse]_vars

\* The workspaces of the switch: the first workspace with item A, a second one with a
\* products directory and a nested one, and products directories inside the first
\* products directory
SwitchChoices(f) ==
  IF f = ItemFileA THEN {File(1, TextA1)}
  ELSE IF f = DirectItemFile THEN {File(1, TextB)}
  ELSE IF f = NestedItemFile THEN {File(1, TextA2)}
  ELSE IF f = InnerItemFile THEN {File(1, TextA9)}
  ELSE IF f = DeepItemFile THEN {File(1, TextDecisionA)}
  ELSE {}

RECURSIVE SwitchFilesystemsOver(_)
SwitchFilesystemsOver(paths) ==
  IF paths = {} THEN {[f \in FilePaths |-> NoFile]}
  ELSE LET path == CHOOSE f \in paths : TRUE
           rest == SwitchFilesystemsOver(paths \ {path})
       IN rest \cup
          {[files EXCEPT ![path] = choice] :
             files \in {r \in rest : Cardinality({f \in FilePaths : r[f].present}) < MaxFiles},
             choice \in SwitchChoices(path)}

SwitchFilesystems == SwitchFilesystemsOver(FilePaths)

InitSwitch ==
  /\ clock = 1
  /\ fs \in SwitchFilesystems
  /\ productsRoot = <<"ws", "products">>
  /\ cacheByProduct = NoCache
  /\ snapshot = EmptyMap
  /\ request = EnvStep
  /\ response = NoResponse
  /\ readCount = 0

NextSwitch ==
  \/ \E inputPath \in SwitchInputs : SwitchWorkspace(inputPath)
  \/ ListItems("p1", FALSE)

SpecSwitch == InitSwitch /\ [][NextSwitch]_vars

NextItem ==
  \/ \E id \in ItemIds : GetItem("p1", id, FALSE)

SpecItem == InitScan /\ [][NextItem]_vars

-----------------------------------------------------------------------------
(* The scans of manifests of every shape: texts that are no JSON, JSON values *)
(* that are no object, objects whose members are no strings                   *)

ManifestChoices(f) ==
  IF f = ItemFileA THEN {File(1, TextA1), Unreadable}
  ELSE IF f = DecisionFile THEN {File(1, TextDecision)}
  ELSE IF f = TopicManifest
  THEN {File(1, ManifestFull), File(1, ManifestBroken), File(1, ManifestArray),
        File(1, ManifestNull), File(1, ManifestNested), File(1, ManifestTyped),
        File(1, TextA1)}
  ELSE IF f = TopicBrief THEN {File(1, TextPlain)}
  ELSE IF f = WorksetManifest
  THEN {File(1, ManifestEmpty), File(1, ManifestArray), File(1, ManifestNested),
        File(1, ManifestTyped), Unreadable}
  ELSE {}

RECURSIVE ManifestFilesystemsOver(_)
ManifestFilesystemsOver(paths) ==
  IF paths = {} THEN {[f \in FilePaths |-> NoFile]}
  ELSE LET path == CHOOSE f \in paths : TRUE
           rest == ManifestFilesystemsOver(paths \ {path})
       IN rest \cup
          {[files EXCEPT ![path] = choice] :
             files \in {r \in rest : Cardinality({f \in FilePaths : r[f].present}) < MaxFiles},
             choice \in ManifestChoices(path)}

ManifestFilesystems == ManifestFilesystemsOver(FilePaths)

InitManifest ==
  /\ clock = 1
  /\ fs \in ManifestFilesystems
  /\ productsRoot = <<"ws", "products">>
  /\ cacheByProduct = NoCache
  /\ snapshot = EmptyMap
  /\ request = EnvStep
  /\ response = NoResponse
  /\ readCount = 0

NextManifest ==
  \/ \E force \in BOOLEAN : ListItems("p1", force)
  \/ GetItem("p1", "A", FALSE)
  \/ BuildTree("p1", FALSE)
  \/ BuildKanban("p1", FALSE)

SpecManifest == InitManifest /\ [][NextManifest]_vars

-----------------------------------------------------------------------------
(* Properties *)

Queries == {"ListItems", "BuildTree", "BuildKanban"}

\* What ListItems answers when it rebuilds product from the filesystem files
FreshResponses(files, product) ==
  {r.response : r \in ListItemsResults(files, productsRoot, NoCache, product, TRUE)}

\* A tracked file of product that the cache entry was built from has since been
\* rewritten: other content, later mtime
Touched(product) ==
  \E f \in ScannedFiles(fs, productsRoot, ProductRoot(productsRoot, product)) :
    /\ snapshot[product][f].present
    /\ fs[f].content # snapshot[product][f].content
    /\ fs[f].mtime > snapshot[product][f].mtime

ItemsDirectory(product) == Append(ProductRoot(productsRoot, product), "items")

ValidPositions(productCache) ==
  {i \in 1..Len(productCache.allItems) : productCache.allItems[i].valid}

InvalidPositions(productCache) ==
  {i \in 1..Len(productCache.allItems) : ~productCache.allItems[i].valid}

ValidIds(productCache) ==
  {productCache.allItems[i].id : i \in ValidPositions(productCache)}

InvalidPaths(productCache) ==
  {productCache.allItems[i].relativePath : i \in InvalidPositions(productCache)}

IndexedPositions(productCache, id) ==
  {productCache.idIndexes[id][k] : k \in 1..Len(productCache.idIndexes[id])}

PrimaryRecord(productCache, id) == productCache.allItems[productCache.primaryById[id]]

RECURSIVE TreeNodeIds(_)
TreeNodeIds(nodes) ==
  UNION {{nodes[i].id} \cup TreeNodeIds(nodes[i].children) : i \in 1..Len(nodes)}

\* C1: freshness on touch. When ListItems has populated the cache entry of a product
\* and a tracked file of the product is then rewritten (content changed, mtime
\* later), a ListItems call without forceRefresh rebuilds the entry and answers
\* what a rebuild of the filesystem as it now is answers.
C1_FreshnessOnTouch ==
  [][(/\ request'.op = "ListItems"
      /\ ~request'.forceRefresh
      /\ request'.product \in DOMAIN snapshot
      /\ Touched(request'.product))
     => /\ request'.rebuilt
        /\ response' \in FreshResponses(fs, request'.product)]_vars

C1_Witness ==
  /\ request.op = "ListItems"
  /\ request.cached
  /\ ~request.forceRefresh
  /\ request.rebuilt
  /\ fs[ItemFileA].content = TextA2
  /\ \E i \in 1..Len(response.items) : response.items[i].title = "Alpha two"

\* C2: no-op when fresh. A ListItems call without forceRefresh, for a product that
\* has a cache entry built from the filesystem exactly as it is now, reads no file
\* content and leaves the cache entry as it was.
C2_NoOpWhenFresh ==
  [][(/\ request'.op = "ListItems"
      /\ ~request'.forceRefresh
      /\ request'.product \in DOMAIN cacheByProduct
      /\ request'.product \in DOMAIN snapshot
      /\ fs = snapshot[request'.product])
     => /\ readCount' = 0
        /\ cacheByProduct'[request'.product] = cacheByProduct[request'.product]]_vars

C2_Witness ==
  /\ request.op = "ListItems"
  /\ request.cached
  /\ ~request.forceRefresh
  /\ ~request.rebuilt
  /\ request.product \in DOMAIN snapshot
  /\ fs = snapshot[request.product]
  /\ readCount = 0
  /\ Len(response.items) > 0

\* C3: stale data is never served. Whatever files were created, modified or deleted
\* before it, every ListItems call without forceRefresh answers exactly the items
\* and warnings that a full rebuild of the filesystem at the time of the call gives.
C3_NeverStale ==
  [][(/\ request'.op = "ListItems"
      /\ ~request'.forceRefresh
      /\ IsValidProductName(request'.product))
     => response' \in FreshResponses(fs, request'.product)]_vars

\* C4: the items of a ListItems answer hold exactly one entry for each id that
\* occurs among the valid records of the product's cache entry, and no other entry.
C4_OneEntryPerId ==
  (request.op = "ListItems" /\ response.error = "")
  => /\ {response.items[i].id : i \in 1..Len(response.items)}
          = ValidIds(cacheByProduct[request.product])
     /\ \A i, j \in 1..Len(response.items) :
          response.items[i].id = response.items[j].id => i = j

C4_Witness ==
  /\ request.op = "ListItems"
  /\ Len(response.items) = 2
  /\ Len(cacheByProduct[request.product].allItems) = 3
  /\ InvalidPositions(cacheByProduct[request.product]) = {}

\* candidate does not beat primary: its updated is not greater, and with the same
\* updated its relativePath is not smaller
NotBeaten(primary, candidate) ==
  /\ ~StrLess(primary.updated, candidate.updated)
  /\ candidate.updated = primary.updated
       => ~StrLess(candidate.relativePath, primary.relativePath)

\* C5: the primary of an id is the record with the greatest updated string among
\* the records indexed under the id and, among those with that greatest updated,
\* the one with the smallest relativePath.
C5_PrimarySelection ==
  \A p \in DOMAIN cacheByProduct :
    /\ DOMAIN cacheByProduct[p].primaryById = DOMAIN cacheByProduct[p].idIndexes
    /\ \A id \in DOMAIN cacheByProduct[p].idIndexes :
         /\ cacheByProduct[p].primaryById[id] \in IndexedPositions(cacheByProduct[p], id)
         /\ \A k \in IndexedPositions(cacheByProduct[p], id) :
              NotBeaten(PrimaryRecord(cacheByProduct[p], id), cacheByProduct[p].allItems[k])

C5_Witness ==
  \E p \in DOMAIN cacheByProduct : \E id \in DOMAIN cacheByProduct[p].idIndexes :
    /\ Len(cacheByProduct[p].idIndexes[id]) = 3
    /\ cacheByProduct[p].primaryById[id] # cacheByProduct[p].idIndexes[id][1]
    /\ \E k \in IndexedPositions(cacheByProduct[p], id) :
         /\ k # cacheByProduct[p].primaryById[id]
         /\ cacheByProduct[p].allItems[k].updated
              = PrimaryRecord(cacheByProduct[p], id).updated

\* C6: the primary does not depend on the order of discovery. A query of a product
\* that has a cache entry, forced rebuilds included, leaves every id with the same
\* primary record while the filesystem is unchanged, in whatever order the rebuild
\* discovers the records.
C6_PrimaryOrderIndependent ==
  [][(/\ request'.op \in Queries
      /\ request'.product \in DOMAIN cacheByProduct
      /\ request'.product \in DOMAIN snapshot
      /\ fs = snapshot[request'.product])
     => /\ DOMAIN cacheByProduct'[request'.product].primaryById
             = DOMAIN cacheByProduct[request'.product].primaryById
        /\ \A id \in DOMAIN cacheByProduct[request'.product].primaryById :
             PrimaryRecord(cacheByProduct'[request'.product], id)
               = PrimaryRecord(cacheByProduct[request'.product], id)]_vars

C6_Witness ==
  /\ request.op = "ListItems"
  /\ request.cached
  /\ request.forceRefresh
  /\ request.rebuilt
  /\ \E id \in DOMAIN cacheByProduct[request.product].idIndexes :
       /\ Len(cacheByProduct[request.product].idIndexes[id]) >= 2
       /\ cacheByProduct[request.product].primaryById[id]
            # cacheByProduct[request.product].idIndexes[id][1]
       /\ cacheByProduct[request.product].allItems[
            cacheByProduct[request.product].idIndexes[id][1]].updated
            = PrimaryRecord(cacheByProduct[request.product], id).updated

\* C7: ListItems answers an error and no items when the product name is malformed
\* ("Invalid product name") and when the name is well-formed but no such product
\* exists under the products root ("Product not found").
C7_ListItemsErrors ==
  /\ (request.op = "ListItems" /\ ~IsValidProductName(request.product))
       => response.error = "Invalid product name" /\ response.items = <<>>
  /\ (/\ request.op = "ListItems"
      /\ IsValidProductName(request.product)
      /\ ~Exists(fs, ProductRoot(productsRoot, request.product)))
       => response.error = "Product not found" /\ response.items = <<>>

\* C8: a rebuild of a product whose items directory does not exist stores a cache
\* entry with no records and the single warning "Missing items directory", and the
\* query that caused it answers without an error.
C8_MissingItemsDirectory ==
  (/\ request.op = "ListItems"
   /\ request.rebuilt
   /\ ~Exists(fs, ItemsDirectory(request.product)))
  => /\ cacheByProduct[request.product].allItems = <<>>
     /\ cacheByProduct[request.product].idIndexes = EmptyMap
     /\ cacheByProduct[request.product].primaryById = EmptyMap
     /\ cacheByProduct[request.product].warnings = <<"Missing items directory">>
     /\ response.error = ""
     /\ response.items = <<>>
     /\ response.warnings = <<"Missing items directory">>

C8_Witness ==
  /\ request.op = "ListItems"
  /\ request.product = "p2"
  /\ request.rebuilt
  /\ fs[OtherDecisionFile].present
  /\ "p2" \in DOMAIN cacheByProduct
  /\ response.warnings = <<"Missing items directory">>

\* C9: invalid records stay in allItems, each with its warning, and take no part in
\* what is derived: no position of an invalid record is in idIndexes or primaryById,
\* and no invalid record is an entry of ListItems, a card of BuildKanban or a node
\* of BuildTree.
C9_InvalidRecordsExcluded ==
  /\ \A p \in DOMAIN cacheByProduct :
       /\ \A id \in DOMAIN cacheByProduct[p].idIndexes :
            IndexedPositions(cacheByProduct[p], id) \cap InvalidPositions(cacheByProduct[p])
              = {}
       /\ \A id \in DOMAIN cacheByProduct[p].primaryById :
            cacheByProduct[p].primaryById[id] \notin InvalidPositions(cacheByProduct[p])
       /\ Exists(fs, ItemsDirectory(p))
            => Len(cacheByProduct[p].warnings)
                 = Cardinality(InvalidPositions(cacheByProduct[p]))
  /\ (request.op = "ListItems" /\ response.error = "")
       => \A i \in 1..Len(response.items) :
            /\ response.items[i].valid
            /\ response.items[i].path \notin InvalidPaths(cacheByProduct[request.product])
  /\ (request.op = "BuildKanban" /\ response.error = "")
       => \A lane \in Lanes : \A i \in 1..Len(response.lanes[lane]) :
            /\ response.lanes[lane][i].valid
            /\ response.lanes[lane][i].path
                 \notin InvalidPaths(cacheByProduct[request.product])
  /\ (request.op = "BuildTree" /\ response.error = "")
       => TreeNodeIds(response.roots) \subseteq ValidIds(cacheByProduct[request.product])

C9_Witness ==
  /\ request.op = "BuildTree"
  /\ Len(response.roots) > 0
  /\ \E i \in InvalidPositions(cacheByProduct[request.product]) :
       cacheByProduct[request.product].allItems[i].sourceKind = "Item"
  /\ Len(response.warnings) > 0

\* C10: every record stored in a product cache, whichever of the four builders made
\* it, is either valid with a non-empty id or invalid with a non-empty parseError.
C10_RecordValidity ==
  \A p \in DOMAIN cacheByProduct : \A i \in 1..Len(cacheByProduct[p].allItems) :
    \/ cacheByProduct[p].allItems[i].valid /\ cacheByProduct[p].allItems[i].id # ""
    \/ ~cacheByProduct[p].allItems[i].valid /\ cacheByProduct[p].allItems[i].parseError # ""

C10_Witness ==
  \E p \in DOMAIN cacheByProduct :
    /\ Cardinality({cacheByProduct[p].allItems[i].sourceKind :
                      i \in 1..Len(cacheByProduct[p].allItems)}) = 3
    /\ ValidPositions(cacheByProduct[p]) # {}
    /\ \E i \in InvalidPositions(cacheByProduct[p]) :
         cacheByProduct[p].allItems[i].parseError = "Failed to open file"

\* the number of records of the cache entry that carry id
RecordsSharing(productCache, id) ==
  Cardinality({i \in 1..Len(productCache.allItems) : productCache.allItems[i].id = id})

\* C12 as stated: an entry of ListItems carries duplicate_count when, and only when,
\* more than one record shares its id, and then its value is the number of records
\* sharing the id.
C12_DuplicateCountOnlyWhenShared ==
  (request.op = "ListItems" /\ response.error = "")
  => \A i \in 1..Len(response.items) :
       /\ "duplicate_count" \in DOMAIN response.items[i]
            <=> RecordsSharing(cacheByProduct[request.product], response.items[i].id) > 1
       /\ "duplicate_count" \in DOMAIN response.items[i]
            => response.items[i].duplicate_count
                 = RecordsSharing(cacheByProduct[request.product], response.items[i].id)

\* C12, amended: every entry of ListItems carries duplicate_count, and its value is
\* the number of records sharing the entry's id, 1 when the id is unique.
C12_DuplicateCountAlways ==
  (request.op = "ListItems" /\ response.error = "")
  => \A i \in 1..Len(response.items) :
       /\ "duplicate_count" \in DOMAIN response.items[i]
       /\ response.items[i].duplicate_count
            = RecordsSharing(cacheByProduct[request.product], response.items[i].id)

C12_Witness ==
  /\ request.op = "ListItems"
  /\ \E i, j \in 1..Len(response.items) :
       /\ response.items[i].duplicate_count = 1
       /\ response.items[j].duplicate_count = 2

\* C13: for an id that an indexed record carries, GetItem answers the primary record
\* of the id, with its content, and as duplicates every record sharing the id, in
\* discovery order and without content; for any other id it answers the error
\* "Item not found" and no item.
C13_GetItem ==
  (request.op = "GetItem" /\ IsValidProductName(request.product))
  => IF RecordsSharing(cacheByProduct[request.product], request.id) > 0
          /\ request.id # ""
     THEN /\ response.error = ""
          /\ response.item.id = request.id
          /\ response.item.path
               = PrimaryRecord(cacheByProduct[request.product], request.id).relativePath
          /\ response.item.content
               = PrimaryRecord(cacheByProduct[request.product], request.id).rawContent
          /\ Len(response.duplicates)
               = RecordsSharing(cacheByProduct[request.product], request.id)
          /\ \A k \in 1..Len(response.duplicates) :
               /\ response.duplicates[k].id = request.id
               /\ "content" \notin DOMAIN response.duplicates[k]
               /\ response.duplicates[k].path
                    = cacheByProduct[request.product].allItems[
                        PositionsOf(cacheByProduct[request.product].allItems,
                                    request.id)[k]].relativePath
     ELSE /\ response.error = "Item not found"
          /\ response.item = EmptyMap
          /\ response.duplicates = <<>>

C13_Witness ==
  /\ request.op = "GetItem"
  /\ response.error = ""
  /\ Len(response.duplicates) >= 2
  /\ response.item.path # response.duplicates[1].path
  /\ response.item.content # ""

\* C11: no valid record of a product cache, whatever builder made it, has an id that
\* is the token "null" in any letter case.
C11_NoNullId ==
  \A p \in DOMAIN cacheByProduct : \A i \in ValidPositions(cacheByProduct[p]) :
    ToLower(cacheByProduct[p].allItems[i].id) # "null"

\* The hierarchy-eligible primary items of a cache entry, by id
Eligible(productCache) ==
  {id \in DOMAIN productCache.primaryById :
     PrimaryRecord(productCache, id).type \in HierarchyTypes}

ParentOf(productCache, id) == PrimaryRecord(productCache, id).parent

\* the eligible item reached from id by n parent links, "" when the links leave the
\* eligible items before
RECURSIVE AncestorAt(_, _, _)
AncestorAt(productCache, id, n) ==
  IF id \notin Eligible(productCache) THEN ""
  ELSE IF n = 0 THEN id
  ELSE AncestorAt(productCache, ParentOf(productCache, id), n - 1)

OnCycle(productCache, id) ==
  \E n \in 1..Cardinality(Eligible(productCache)) : AncestorAt(productCache, id, n) = id

Acyclic(productCache) == \A id \in Eligible(productCache) : ~OnCycle(productCache, id)

RootIds(productCache) ==
  {id \in Eligible(productCache) :
     ParentOf(productCache, id) = ""
       \/ ParentOf(productCache, id) \notin Eligible(productCache)}

OrphanIds(productCache) ==
  {id \in Eligible(productCache) :
     ParentOf(productCache, id) # ""
       /\ ParentOf(productCache, id) \notin Eligible(productCache)}

OrphanWarning(productCache, id) ==
  "Orphan parent missing for item " \o id \o ": " \o ParentOf(productCache, id)

\* how often id occurs in nodes[i..] and below
RECURSIVE Occurrences(_, _, _)
Occurrences(nodes, id, i) ==
  IF i > Len(nodes) THEN 0
  ELSE (IF nodes[i].id = id THEN 1 ELSE 0)
       + Occurrences(nodes[i].children, id, 1)
       + Occurrences(nodes, id, i + 1)

\* the number of nodes in nodes[i..] and below
RECURSIVE TotalNodes(_, _)
TotalNodes(nodes, i) ==
  IF i > Len(nodes) THEN 0
  ELSE 1 + TotalNodes(nodes[i].children, 1) + TotalNodes(nodes, i + 1)

\* the pairs <<parent, child>> of the forest
RECURSIVE ChildPairs(_)
ChildPairs(nodes) ==
  UNION {{<<nodes[i].id, nodes[i].children[k].id>> : k \in 1..Len(nodes[i].children)}
           \cup ChildPairs(nodes[i].children) : i \in 1..Len(nodes)}

TreeAnswered == request.op = "BuildTree" /\ response.error = ""

\* C14: every item on a cycle of parent links among the eligible primary items
\* occurs exactly once in the forest of BuildTree.
C14_CycleNodesKept ==
  TreeAnswered
  => \A id \in Eligible(cacheByProduct[request.product]) :
       OnCycle(cacheByProduct[request.product], id)
         => Occurrences(response.roots, id, 1) = 1

\* C15: when the parent links among the eligible primary items contain a cycle, the
\* warnings of BuildTree hold "Cycle detected at <id>" for an id on a cycle.
C15_CycleReported ==
  (/\ TreeAnswered
   /\ \E id \in Eligible(cacheByProduct[request.product]) :
        OnCycle(cacheByProduct[request.product], id))
  => \E id \in Eligible(cacheByProduct[request.product]) :
       /\ OnCycle(cacheByProduct[request.product], id)
       /\ \E i \in 1..Len(response.warnings) :
            response.warnings[i] = "Cycle detected at " \o id

\* C16: BuildTree ends whatever the parent links, self-parents and cycles included:
\* the depth-first assembly expands at most as many nodes as there are eligible
\* primary items, each expansion being one node of the forest it returns.
C16_TreeBounded ==
  TreeAnswered
  => TotalNodes(response.roots, 1) <= Cardinality(Eligible(cacheByProduct[request.product]))

C16_Witness ==
  /\ TreeAnswered
  /\ Cardinality(Eligible(cacheByProduct[request.product])) = 3
  /\ OnCycle(cacheByProduct[request.product], "A")
  /\ OnCycle(cacheByProduct[request.product], "B")
  /\ ParentOf(cacheByProduct[request.product], "C") = "C"

\* C17: the roots of BuildTree are exactly the eligible primary items whose parent
\* is empty or is not the id of an eligible primary item, each once.
C17_RootRule ==
  TreeAnswered
  => /\ {response.roots[i].id : i \in 1..Len(response.roots)}
          = RootIds(cacheByProduct[request.product])
     /\ \A i, j \in 1..Len(response.roots) :
          response.roots[i].id = response.roots[j].id => i = j

C17_Witness ==
  /\ TreeAnswered
  /\ Len(response.roots) = 2
  /\ \E i, j \in 1..2 :
       /\ response.roots[i].parent = ""
       /\ response.roots[j].parent # ""
       /\ Len(response.roots[j].children) = 1

\* C18: BuildTree warns "Orphan parent missing for item <id>: <parent>" exactly once
\* for every eligible primary item whose non-empty parent is not an eligible id, puts
\* that item among the roots, and gives no such warning for any other item.
C18_OrphanHandling ==
  TreeAnswered
  => /\ \A id \in OrphanIds(cacheByProduct[request.product]) :
          /\ Cardinality({i \in 1..Len(response.warnings) :
                            response.warnings[i]
                              = OrphanWarning(cacheByProduct[request.product], id)}) = 1
          /\ \E i \in 1..Len(response.roots) : response.roots[i].id = id
     /\ \A i \in 1..Len(response.warnings) :
          StartsWith(response.warnings[i], "Orphan parent missing")
            => \E id \in OrphanIds(cacheByProduct[request.product]) :
                 response.warnings[i] = OrphanWarning(cacheByProduct[request.product], id)

C18_Witness ==
  /\ TreeAnswered
  /\ \E i \in 1..Len(response.warnings) :
       response.warnings[i] = "Orphan parent missing for item B: adr-1"
  /\ "adr-1" \in DOMAIN cacheByProduct[request.product].primaryById
  /\ \E i \in 1..Len(response.roots) :
       response.roots[i].id = "A" /\ response.roots[i].parent = ""

\* C19: in every forest of BuildTree an id occurs at most once over all the roots
\* and all the children below them.
C19_NoDuplication ==
  TreeAnswered
  => \A id \in TreeNodeIds(response.roots) : Occurrences(response.roots, id, 1) = 1

C19_Witness ==
  /\ TreeAnswered
  /\ Len(response.roots) = 1
  /\ Len(response.roots[1].children) = 2

\* C20: when the parent links among the eligible primary items are acyclic, the
\* forest holds every eligible item exactly once and nothing else, and X is a child
\* of Y exactly when the parent of X is the id of Y.
C20_AcyclicForest ==
  (TreeAnswered /\ Acyclic(cacheByProduct[request.product]))
  => /\ TreeNodeIds(response.roots) = Eligible(cacheByProduct[request.product])
     /\ \A id \in Eligible(cacheByProduct[request.product]) :
          Occurrences(response.roots, id, 1) = 1
     /\ ChildPairs(response.roots)
          = {<<ParentOf(cacheByProduct[request.product], id), id>> :
               id \in Eligible(cacheByProduct[request.product])
                        \ RootIds(cacheByProduct[request.product])}

C20_Witness ==
  /\ TreeAnswered
  /\ "adr-1" \in DOMAIN cacheByProduct[request.product].primaryById
  /\ Len(response.roots) = 1
  /\ response.roots[1].id = "A"
  /\ Len(response.roots[1].children) = 1
  /\ response.roots[1].children[1].id = "B"

KanbanAnswered == request.op = "BuildKanban" /\ response.error = ""

\* the entries of all the lanes of a board
LaneEntries(lanes) == UNION {{lanes[lane][i] : i \in 1..Len(lanes[lane])} : lane \in Lanes}

LaneNames == <<"Backlog", "Doing", "Blocked", "Review", "Done">>

\* C21: the lanes of BuildKanban are exactly the five lanes, every primary item that
\* ListItems returns for the product, whatever its type, is in exactly one of them,
\* and the lanes hold nothing else.
C21_KanbanPartition ==
  KanbanAnswered
  => /\ DOMAIN response.lanes = Lanes
     /\ LaneEntries(response.lanes)
          = {ListEntry(cacheByProduct[request.product], id) :
               id \in DOMAIN cacheByProduct[request.product].primaryById}
     /\ \A id \in DOMAIN cacheByProduct[request.product].primaryById :
          SumSeq([k \in 1..5 |->
                    Cardinality({i \in 1..Len(response.lanes[LaneNames[k]]) :
                                   response.lanes[LaneNames[k]][i].id = id})], 1) = 1

C21_Witness ==
  /\ KanbanAnswered
  /\ \E i \in 1..Len(response.lanes["Doing"]) : response.lanes["Doing"][i].type = "Topic"
  /\ \E i \in 1..Len(response.lanes["Backlog"]) : response.lanes["Backlog"][i].type = "ADR"
  /\ \E i \in 1..Len(response.lanes["Done"]) : response.lanes["Done"][i].type = "Epic"

\* the lane of a state by one lookup of its lower-case form
LaneLookup(lowered) ==
  IF lowered \in {"inprogress", "active"} THEN "Doing"
  ELSE IF lowered = "blocked" THEN "Blocked"
  ELSE IF lowered = "review" THEN "Review"
  ELSE IF lowered \in {"done", "closed"} THEN "Done"
  ELSE "Backlog"

\* C22: every item of a board lies in the lane that one case-insensitive lookup of its
\* state gives: inprogress and active in Doing, blocked in Blocked, review in Review,
\* done and closed in Done, every other state, the empty one included, in Backlog.
C22_LaneMapping ==
  KanbanAnswered
  => \A lane \in Lanes : \A i \in 1..Len(response.lanes[lane]) :
       LaneLookup(ToLower(response.lanes[lane][i].state)) = lane

C22_Witness ==
  /\ KanbanAnswered
  /\ \E i \in 1..Len(response.lanes["Backlog"]) : response.lanes["Backlog"][i].state = ""
  /\ \E i \in 1..Len(response.lanes["Backlog"]) : response.lanes["Backlog"][i].state = "Weird"
  /\ \E i \in 1..Len(response.lanes["Done"]) : response.lanes["Done"][i].state = "CLOSED"

\* C23: Refresh of a valid product name removes that product's cache entry and
\* nothing else: the other entries and the products root stay as they were, and the
\* next query of the product rebuilds; Refresh of the empty name removes every entry.
C23_RefreshFrame ==
  [][/\ (request'.op = "Refresh" /\ response'.error = "")
        => /\ productsRoot' = productsRoot
           /\ DOMAIN cacheByProduct'
                = (IF request'.product = "" THEN {}
                   ELSE DOMAIN cacheByProduct \ {request'.product})
           /\ \A p \in DOMAIN cacheByProduct' : cacheByProduct'[p] = cacheByProduct[p]
     /\ (/\ request.op = "Refresh"
         /\ response.error = ""
         /\ request'.op \in Queries
         /\ request'.product \in {request.product} \cup (IF request.product = "" THEN ProductNames ELSE {})
         /\ IsValidProductName(request'.product))
        => request'.rebuilt]_vars

C23_Witness ==
  /\ request.op = "Refresh"
  /\ request.product = "p1"
  /\ request.cached
  /\ response.refreshed = "p1"
  /\ DOMAIN cacheByProduct = {"p2"}

\* C27: a ListItems call with forceRefresh always rebuilds, and its response is what
\* a rebuild of the filesystem as it is now gives, also when no tracked file is newer
\* than the cached watermark (a file was deleted, or a file the scan does not count
\* was written).
C27_ForcedRebuild ==
  [][(/\ request'.op = "ListItems"
      /\ request'.forceRefresh
      /\ IsValidProductName(request'.product))
     => /\ request'.rebuilt
        /\ response' \in FreshResponses(fs, request'.product)
        /\ cacheByProduct'[request'.product]
             \in RebuiltCaches(fs, productsRoot, request'.product)]_vars

C27_Witness ==
  /\ request.op = "ListItems"
  /\ request.product = "p1"
  /\ request.forceRefresh
  /\ request.cached
  /\ request.rebuilt
  /\ ~fs[ItemFileA].present
  /\ fs[TrashTopicManifest].present
  /\ fs[TrashTopicManifest].mtime > cacheByProduct["p1"].latestMtime
  /\ Len(response.items) = 1
  /\ response.items[1].id = "TOPIC-_trash"

\* C28: every cache entry is, in all its fields together (allItems, idIndexes,
\* primaryById, warnings, latestMtime), the result of one complete rebuild of the
\* filesystem it was built from; no state holds a partly filled or mixed entry.
C28_AtomicReplacement ==
  /\ DOMAIN cacheByProduct = DOMAIN snapshot
  /\ \A p \in DOMAIN cacheByProduct :
       cacheByProduct[p]
         \in RebuiltCaches(snapshot[p], productsRoot, p)

C28_Witness ==
  /\ request.op = "ListItems"
  /\ request.product = "p1"
  /\ request.cached
  /\ request.rebuilt
  /\ ~request.forceRefresh
  /\ cacheByProduct["p1"].latestMtime = 2
  /\ Len(cacheByProduct["p1"].allItems) = 2
  /\ "p2" \in DOMAIN cacheByProduct

\* the brief.md files a rebuild opens: those beside the topic manifests that were read
\* and parsed (ParseTopicManifest returns at lines 417-420 otherwise) and whose
\* members were taken (lines 422-428)
BriefsOf(files, manifests) ==
  {b \in {Append(ParentPath(m), "brief.md") :
            m \in {n \in manifests :
                     /\ ParseJsonFile(files, n).ok
                     /\ ~ManifestThrows(ParseJsonFile(files, n), "topic")}} :
     b \in DOMAIN files /\ files[b].present}

\* The files a rebuild of product that completes reads to make its records
LoadedFiles(files, root, product) ==
  IF ~Exists(files, Append(ProductRoot(root, product), "items")) THEN {}
  ELSE ItemEntries(files, Append(ProductRoot(root, product), "items"))
       \cup ItemEntries(files, Append(ProductRoot(root, product), "decisions"))
       \cup ManifestEntries(files, Append(BacklogRoot(root), "topics"))
       \cup BriefsOf(files, ManifestEntries(files, Append(BacklogRoot(root), "topics")))
       \cup ManifestEntries(files, Append(BacklogRoot(root), "worksets"))

\* C30: the files whose mtime the staleness scan takes into the watermark are exactly
\* the files a rebuild reads to produce its records.
C30_SameFileSet ==
  (request.op = "ListItems" /\ request.rebuilt)
  => ScannedFiles(fs, productsRoot, ProductRoot(productsRoot, request.product))
       = LoadedFiles(fs, productsRoot, request.product)

IsDelimiter(line) == Trim(line) = "---"

\* the lines after the first that are delimiters
ClosingLines(lines) == {k \in 2..Len(lines) : IsDelimiter(lines[k])}

FirstClosing(lines) ==
  CHOOSE k \in ClosingLines(lines) : \A j \in ClosingLines(lines) : k <= j

\* C26: the frontmatter parser fails when the first line, trimmed, is not ---, and
\* when it is but no later line, trimmed, is ---; with both it succeeds, and its map
\* is that of the lines up to the first closing delimiter alone.
C26_FrontmatterDelimiters ==
  request.op = "ParseFrontmatterMap"
  => /\ (request.lines # <<>> /\ ~IsDelimiter(request.lines[1])) => ~response.ok
     /\ (/\ request.lines # <<>>
         /\ IsDelimiter(request.lines[1])
         /\ ClosingLines(request.lines) = {}) => ~response.ok
     /\ (/\ request.lines # <<>>
         /\ IsDelimiter(request.lines[1])
         /\ ClosingLines(request.lines) # {})
        => /\ response.ok
           /\ response.map
                = ParseFrontmatterMap(
                    JoinLines(SubSeq(request.lines, 1, FirstClosing(request.lines)))).map
           /\ DOMAIN response.map
                = {Trim(SubSeq(request.lines[j], 1, IndexOf(request.lines[j], ":", 1) - 1)) :
                     j \in {i \in 2..FirstClosing(request.lines) - 1 :
                              IndexOf(request.lines[i], ":", 1) # 0}}

C26_Witness ==
  /\ request.op = "ParseFrontmatterMap"
  /\ request.lines = <<" ---\r", "id: A", " ---\r", "title: B">>
  /\ response.ok
  /\ response.map = [id |-> "A"]

\* C24: a successful SwitchWorkspace leaves the products root at the directory the
\* input resolves to and the cache map empty, and in every state every cache entry
\* is what a rebuild under the active products root gives.
C24_SwitchClearsCache ==
  [][/\ (request'.op = "SwitchWorkspace" /\ response'.error = "")
        => /\ cacheByProduct' = NoCache
           /\ productsRoot'
                = WeaklyCanonical(
                    ResolveProductsPathFromInput(fs, PathOfInputs[request'.inputPath]))
           /\ IsDirectory(fs, productsRoot')
           /\ response'.products_root = AbsoluteString(productsRoot')
     /\ \A p \in DOMAIN cacheByProduct' :
          cacheByProduct'[p] \in RebuiltCaches(fs', productsRoot', p)]_vars

C24_Witness ==
  /\ request.op = "SwitchWorkspace"
  /\ request.inputPath = "/ws/."
  /\ response.switched
  /\ response.products_root = "/ws/products"
  /\ productsRoot = <<"ws", "products">>
  /\ request.cached
  /\ cacheByProduct = NoCache
  /\ fs[DirectItemFile].present

\* the directories ResolveProductsPathFromInput is to try for a path, in their order
ResolutionCandidates(inputPath) ==
  <<Append(inputPath, "products")>>
  \o (IF inputPath[Len(inputPath)] = "products" THEN <<inputPath>> ELSE <<>>)
  \o <<inputPath \o <<"_kano", "backlog", "products">>>>

ExistingCandidates(files, inputPath) ==
  SelectSeq(ResolutionCandidates(inputPath),
            LAMBDA dir : IsDirectory(files, WeaklyCanonical(dir)))

\* C25: SwitchWorkspace of a non-empty path takes the first existing directory among
\* path/products, the path itself when its last component is "products", and
\* path/_kano/backlog/products, in this order, and fails, changing nothing, when none
\* of them exists.
C25_ResolutionOrder ==
  [][(request'.op = "SwitchWorkspace" /\ Trim(request'.inputPath) # "")
     => IF ExistingCandidates(fs, PathOfInputs[request'.inputPath]) = <<>>
        THEN /\ StartsWith(response'.error, "Path does not contain a backlog products directory")
             /\ productsRoot' = productsRoot
             /\ cacheByProduct' = cacheByProduct
        ELSE /\ response'.error = ""
             /\ productsRoot'
                  = WeaklyCanonical(
                      ExistingCandidates(fs, PathOfInputs[request'.inputPath])[1])]_vars

C25_Witness ==
  /\ request.op = "SwitchWorkspace"
  /\ request.inputPath = "/w2"
  /\ fs[DirectItemFile].present
  /\ fs[NestedItemFile].present
  /\ response.switched
  /\ productsRoot = <<"w2", "products">>

\* C29: no ListItems response comes from a rebuild made under another products root
\* than the active one: whatever switches and rebuilds came before, the response is
\* one that a rebuild under the active root gives.
C29_NoOldRootServed ==
  [][(request'.op = "ListItems" /\ response'.error = "")
     => /\ productsRoot' = productsRoot
        /\ response'
             \in {r.response :
                    r \in ListItemsResults(fs', productsRoot', NoCache, request'.product, TRUE)}]_vars

C29_Witness ==
  /\ request.op = "ListItems"
  /\ productsRoot = <<"w2", "_kano", "backlog", "products">>
  /\ fs[ItemFileA].present
  /\ ~request.rebuilt
  /\ Len(response.items) = 1
  /\ response.items[1].title = "Alpha two"

\* the relative path a record of the file f would carry in the entry of product
RecordPathsOf(f, product) ==
  IF IsUnder(f, ProductRoot(productsRoot, product))
  THEN {GenericString(Relative(f, ProductRoot(productsRoot, product)))}
  ELSE IF IsUnder(f, BacklogRoot(productsRoot))
  THEN {GenericString(Relative(f, BacklogRoot(productsRoot)))}
  ELSE {}

\* C31: no cache entry holds a record, valid or not, of a file named README.md, of a
\* file whose name ends in .index.md, or of a file below a directory named _trash,
\* whichever of the four walks would have met it.
C31_SkipRules ==
  \A p \in DOMAIN cacheByProduct : \A i \in 1..Len(cacheByProduct[p].allItems) :
    \A f \in {g \in FilePaths : ShouldSkipPath(g)} :
      cacheByProduct[p].allItems[i].relativePath \notin RecordPathsOf(f, p)

\* The files a rebuild of product is to make a record of: the markdown files below
\* items and decisions, and the manifest.json of every directory of topics and of
\* worksets, that no skip rule names
SurvivingFiles(files, product) ==
  {f \in FilePaths :
     /\ files[f].present
     /\ ~ShouldSkipPath(f)
     /\ \/ /\ \/ IsUnder(f, Append(ProductRoot(productsRoot, product), "items"))
              \/ IsUnder(f, Append(ProductRoot(productsRoot, product), "decisions"))
           /\ EndsWith(f[Len(f)], ".md")
        \/ /\ f[Len(f)] = "manifest.json"
           /\ \/ SubSeq(f, 1, Len(f) - 2) = Append(BacklogRoot(productsRoot), "topics")
              \/ SubSeq(f, 1, Len(f) - 2) = Append(BacklogRoot(productsRoot), "worksets")}

\* the call that has just been made had to rebuild the entry of its product
RebuildAsked ==
  /\ request.op \in {"ListItems", "GetItem", "BuildTree", "BuildKanban"}
  /\ IsValidProductName(request.product)
  /\ request.forceRefresh \/ ~request.cached

\* the warning the claim gives an invalid record
WarningText(item) ==
  (IF item.sourceKind = "Item" THEN "Invalid item"
   ELSE IF item.sourceKind = "Decision" THEN "Invalid decision"
   ELSE IF item.sourceKind = "Topic" THEN "Invalid topic"
   ELSE "Invalid workset")
  \o ": " \o item.relativePath \o " - " \o item.parseError

\* the positions of the invalid records, in discovery order
InvalidInOrder(allItems) ==
  SelectSeq([i \in 1..Len(allItems) |-> i], LAMBDA i : ~allItems[i].valid)

\* C32: no failure of a file aborts a scan. A call that has to rebuild a product whose
\* items directory is there completes the rebuild, and a cache entry holds exactly one
\* record for every surviving file, however many of them fail to read or to parse,
\* and its warnings are, in discovery order, one "<category>: <path> - <error>" for
\* every invalid record.
C32_FailuresDoNotAbort ==
  /\ (RebuildAsked /\ Exists(fs, ItemsDirectory(request.product)))
     => /\ request.rebuilt
        /\ ~Threw(response)
        /\ request.product \in DOMAIN cacheByProduct
  /\ \A p \in DOMAIN cacheByProduct :
       Exists(fs, ItemsDirectory(p))
       => /\ Len(cacheByProduct[p].allItems) = Cardinality(SurvivingFiles(fs, p))
          /\ {cacheByProduct[p].allItems[i].relativePath :
                i \in 1..Len(cacheByProduct[p].allItems)}
               = UNION {RecordPathsOf(f, p) : f \in SurvivingFiles(fs, p)}
          /\ cacheByProduct[p].warnings
               = [k \in 1..Len(InvalidInOrder(cacheByProduct[p].allItems)) |->
                    WarningText(cacheByProduct[p].allItems[
                                  InvalidInOrder(cacheByProduct[p].allItems)[k]])]

\* the part of C32 the rebuilds that complete keep: one record for every surviving
\* file and one warning for every invalid record
RecordsOfCompletedScans ==
  \A p \in DOMAIN cacheByProduct :
    Exists(fs, ItemsDirectory(p))
    => /\ Len(cacheByProduct[p].allItems) = Cardinality(SurvivingFiles(fs, p))
       /\ cacheByProduct[p].warnings
            = [k \in 1..Len(InvalidInOrder(cacheByProduct[p].allItems)) |->
                 WarningText(cacheByProduct[p].allItems[
                               InvalidInOrder(cacheByProduct[p].allItems)[k]])]

\* the nodes of a forest, each without its children
RECURSIVE NodesOf(_)
NodesOf(nodes) ==
  UNION {{[nodes[i] EXCEPT !.children = <<>>]} \cup NodesOf(nodes[i].children) :
           i \in 1..Len(nodes)}

\* C33: every node of the forest of BuildTree and every card of the lanes of
\* BuildKanban carries the title, type, state and parent of the primary record of its
\* id, and every parent edge of the forest is the parent link of a primary record: a
\* duplicate that is not the primary contributes no node, no card and no edge.
C33_ViewsShowPrimaries ==
  /\ TreeAnswered
       => /\ \A n \in NodesOf(response.roots) :
               /\ n.id \in DOMAIN cacheByProduct[request.product].primaryById
               /\ n = TreeNode(PrimaryRecord(cacheByProduct[request.product], n.id))
          /\ \A pair \in ChildPairs(response.roots) :
               pair[1] = ParentOf(cacheByProduct[request.product], pair[2])
  /\ KanbanAnswered
       => \A card \in LaneEntries(response.lanes) :
            /\ card.id \in DOMAIN cacheByProduct[request.product].primaryById
            /\ <<card.title, card.type, card.state, card.parent, card.path>>
                 = <<PrimaryRecord(cacheByProduct[request.product], card.id).title,
                     PrimaryRecord(cacheByProduct[request.product], card.id).type,
                     PrimaryRecord(cacheByProduct[request.product], card.id).state,
                     PrimaryRecord(cacheByProduct[request.product], card.id).parent,
                     PrimaryRecord(cacheByProduct[request.product], card.id).relativePath>>

\* a forest with an edge, built over an id whose primary record was not discovered
\* first and differs from the first in its parent
C33_Witness ==
  /\ TreeAnswered
  /\ ChildPairs(response.roots) # {}
  /\ \E id \in Eligible(cacheByProduct[request.product]) :
       /\ Occurrences(response.roots, id, 1) = 1
       /\ cacheByProduct[request.product].primaryById[id]
            # cacheByProduct[request.product].idIndexes[id][1]
       /\ cacheByProduct[request.product].allItems[
            cacheByProduct[request.product].idIndexes[id][1]].parent
            # ParentOf(cacheByProduct[request.product], id)

\* the sequences of siblings of a forest: its roots and the children of every node
RECURSIVE SiblingLists(_)
SiblingLists(nodes) ==
  {nodes} \cup UNION {SiblingLists(nodes[i].children) : i \in 1..Len(nodes)}

\* C34: among the roots and within the children of every node of the forest of
\* BuildTree, an item whose record was discovered before another's precedes it.
C34_SiblingsInScanOrder ==
  TreeAnswered
  => \A siblings \in SiblingLists(response.roots) :
       \A i, j \in 1..Len(siblings) :
         i < j => cacheByProduct[request.product].primaryById[siblings[i].id]
                    < cacheByProduct[request.product].primaryById[siblings[j].id]

\* C35: the watermark of an entry is the one scanned before the files were read, so a
\* tracked file written after that scan, even while the rebuild was reading, lies
\* above the watermark: every tracked file that is not as the rebuild read it is newer
\* than the watermark, and a ListItems that answers from the entry it finds finds
\* every tracked file as the rebuild read it.
C35_WatermarkPrecedesReads ==
  /\ \A p \in DOMAIN cacheByProduct :
       \A f \in ScannedFiles(fs, productsRoot, ProductRoot(productsRoot, p)) :
         fs[f] # snapshot[p][f] => fs[f].mtime > cacheByProduct[p].latestMtime
  /\ (request.op = "ListItems" /\ ~request.rebuilt)
       => \A f \in ScannedFiles(fs, productsRoot,
                                ProductRoot(productsRoot, request.product)) :
            fs[f] = snapshot[request.product][f]

\* a topic manifest was rewritten between the two opens of one rebuild, whose record
\* has the state of the old text and the new text as content, and the next ListItems
\* found the entry stale and started the rebuild
C35_Witness ==
  /\ Loading
  /\ request.cached
  /\ fs[TopicManifest].mtime > cacheByProduct[request.product].latestMtime
  /\ \E i \in 1..Len(cacheByProduct[request.product].allItems) :
       /\ cacheByProduct[request.product].allItems[i].sourceKind = "Topic"
       /\ cacheByProduct[request.product].allItems[i].state = "active"
       /\ cacheByProduct[request.product].allItems[i].rawContent = ManifestBlank

\* what a call of ListItems answers and the entry of the product it leaves
AnswersAndEntries(results, product) ==
  {<<r.response, product \in DOMAIN r.cache,
     IF product \in DOMAIN r.cache THEN r.cache[product] ELSE MissingItemsCache(FileTimeMin)>> :
     r \in results}

\* C36: on an unchanged filesystem, Refresh(product) followed by ListItems(product)
\* can answer exactly what ListItems(product, forceRefresh = true) can answer, and
\* leaves the same entry for the product.
C36_RefreshThenListIsForcedList ==
  \A product \in ProductNames \cup {""} :
    AnswersAndEntries(
      ListItemsResults(fs, productsRoot, CacheAfterRefresh(cacheByProduct, product),
                       product, FALSE), product)
    = AnswersAndEntries(
        ListItemsResults(fs, productsRoot, cacheByProduct, product, TRUE), product)

\* Refresh has just dropped the entry of p1, and two files of p1 are there to be read
\* again
C36_Witness ==
  /\ request.op = "Refresh"
  /\ request.product = "p1"
  /\ request.cached
  /\ response = Refreshed("p1")
  /\ "p1" \notin DOMAIN cacheByProduct
  /\ fs[ItemFileA].present
  /\ fs[ItemFileB].present

\* the texts SwitchWorkspace cannot follow: blank, or naming no products directory
Unresolvable(files, inputPath) ==
  \/ Trim(inputPath) = ""
  \/ ExistingCandidates(files, PathOfInputs[inputPath]) = <<>>

\* C37: a SwitchWorkspace whose input is empty or blank, or resolves to no products
\* directory, answers an error and leaves the products root and every cache entry as
\* they were.
C37_FailedSwitchChangesNothing ==
  [][(request'.op = "SwitchWorkspace" /\ Unresolvable(fs, request'.inputPath))
       => /\ response'.error # ""
          /\ ~response'.switched
          /\ productsRoot' = productsRoot
          /\ cacheByProduct' = cacheByProduct]_vars

\* a switch to a path without products directory has failed after an earlier switch
\* and a rebuild, and the entry and the root are still there
C37_Witness ==
  /\ request.op = "SwitchWorkspace"
  /\ request.inputPath = "/nowhere"
  /\ response.error # ""
  /\ request.cached
  /\ "p1" \in DOMAIN cacheByProduct
  /\ productsRoot = <<"w2", "products">>

\* C38: ListItems, GetItem, BuildTree, BuildKanban and Refresh, given a non-empty name
\* that IsValidProductName refuses, answer "Invalid product name", read no file,
\* rebuild nothing and leave every cache entry as it was.
C38_RefusedNameChangesNothing ==
  [][(/\ request'.op \in {"ListItems", "GetItem", "BuildTree", "BuildKanban", "Refresh"}
      /\ request'.product # ""
      /\ ~IsValidProductName(request'.product))
       => /\ response'.error = "Invalid product name"
          /\ readCount' = 0
          /\ ~request'.rebuilt
          /\ cacheByProduct' = cacheByProduct]_vars

\* BuildKanban has refused a name with a separator while p1 had an entry
C38_Witness ==
  /\ request.op = "BuildKanban"
  /\ request.product = "../p1"
  /\ response.error = "Invalid product name"
  /\ DOMAIN cacheByProduct = {"p1"}

\* C39: for every name the calls accept, the items and decisions directories read lie
\* in a directory directly below the products root, never in the root itself or
\* outside it.
C39_ProductsBelowRoot ==
  \A p \in DOMAIN cacheByProduct :
    \A dir \in {Append(ProductRoot(productsRoot, p), "items"),
                Append(ProductRoot(productsRoot, p), "decisions")} :
      /\ IsUnder(dir, productsRoot)
      /\ Len(dir) = Len(productsRoot) + 2

\* the positions stored under id are positions of allItems holding records of that id
PositionsCarry(productCache, id) ==
  \A k \in 1..Len(productCache.idIndexes[id]) :
    /\ productCache.idIndexes[id][k] \in 1..Len(productCache.allItems)
    /\ productCache.allItems[productCache.idIndexes[id][k]].id = id

StrictlyIncreasing(positions) ==
  \A k \in 1..(Len(positions) - 1) : positions[k] < positions[k + 1]

\* C40: in every cache entry idIndexes and primaryById have the same keys; every
\* position they store is a position of allItems whose record carries the key as its
\* id; the positions under an id are not empty, strictly increasing, and hold the
\* primary of the id.
C40_IndexesAgree ==
  \A p \in DOMAIN cacheByProduct :
    /\ DOMAIN cacheByProduct[p].idIndexes = DOMAIN cacheByProduct[p].primaryById
    /\ \A id \in DOMAIN cacheByProduct[p].idIndexes :
         /\ Len(cacheByProduct[p].idIndexes[id]) >= 1
         /\ PositionsCarry(cacheByProduct[p], id)
         /\ StrictlyIncreasing(cacheByProduct[p].idIndexes[id])
         /\ \E k \in 1..Len(cacheByProduct[p].idIndexes[id]) :
              cacheByProduct[p].idIndexes[id][k] = cacheByProduct[p].primaryById[id]

\* an id stored at two positions that are not neighbours, its primary not the first
C40_Witness ==
  /\ "p1" \in DOMAIN cacheByProduct
  /\ "A" \in DOMAIN cacheByProduct["p1"].idIndexes
  /\ Len(cacheByProduct["p1"].idIndexes["A"]) = 2
  /\ cacheByProduct["p1"].idIndexes["A"][2] > cacheByProduct["p1"].idIndexes["A"][1] + 1
  /\ cacheByProduct["p1"].primaryById["A"] = cacheByProduct["p1"].idIndexes["A"][2]

=============================================================================
